---- MODULE Spec2Model ----
(***************************************************************************)
(* Verification model of the Bangladesh family-planning scraper.           *)
(*                                                                         *)
(* The repository holds several traversal programs that share one leaf     *)
(* fetch engine.  Each program is modelled as its own state machine over   *)
(* its own group of variables:                                             *)
(*   SpecFetch  - data_fetcher.py get_item_data / scrape_item_data /       *)
(*                direct_download_excel, called by                         *)
(*                data_processor.py _process_single_item                   *)
(*   Spec       - final_db_scraper.py FinalDatabaseScraper: traversal with *)
(*                the pickle progress ledger, exits and restarts           *)
(*   SpecPlain  - db_scraper.py: traversal without ledger, run twice       *)
(*   SpecResume - db_scraper_with_resume.py: item processing with the      *)
(*                scrape_progress table and the existence check            *)
(*   SpecFixed  - fixed-scraper.py BangladeshScraper.process_warehouse,    *)
(*                sequential branch                                        *)
(*   SpecRetry  - fixed-scraper.py: the retry loop of one request          *)
(*   SpecResolve- final_db_scraper.py fetch_all_data_to_db: where a run    *)
(*                starts (--resume, --warehouse, the ledger)               *)
(*   SpecPool   - final_db_scraper.py: the periods in a thread pool        *)
(*   SpecNested - fixed-scraper.py: the warehouse pool and the upazila     *)
(*                pools inside it                                          *)
(*   SpecUnion  - data_processor.py / final_db_scraper.py: the item        *)
(*                catalog of one union                                     *)
(*   SpecDiscover - fixed-scraper.py get_upazilas: mapping or request      *)
(*   SpecShapes - the listing operations on one list in three shapes       *)
(*   SpecParse  - the structured-API parse of an aaData payload            *)
(*   SpecScrape - data_fetcher.py scrape_item_data on one answer           *)
(*   SpecDates  - fixed-scraper.py generate_date_ranges                    *)
(*   SpecMain   - main of final_db_scraper.py / db_scraper.py              *)
(*   SpecLedger - final_db_scraper.py update_completion_status alone       *)
(*   SpecFlush  - data_processor.py / final_db_scraper.py: the summary     *)
(*                files written during a run                               *)
(*   SpecDelay  - the sleeps between sibling iterations                    *)
(***************************************************************************)
EXTENDS Integers, Sequences, FiniteSets, Bags, TLC

\* ------------------------------------------------------------------ bounds
\* Largest number of rows in one remote payload (aaData rows, <tr> rows).
MaxRows == 3
\* Largest number of records the leaf fetch returns for one unit of a traversal.
MaxRecs == 2
\* Number of processes (first run, then re-runs after an exit or a kill).
MaxRuns == 2
\* Largest max_retries a scraper is constructed with (--retries).
MaxRetries == 3
\* max_workers, the size of a thread pool (--workers).
MaxWorkers == 2

\* ------------------------------------------------------------------ state
VARIABLES
    \* --- leaf fetch engine (data_fetcher.py, data_processor.py) ---
    fpc,        \* position of the leaf fetch: "api","html","caller","excel","save","done"
    tried,      \* strategies attempted so far, in order
    apiRecs,    \* records the structured-API strategy yielded
    htmlRecs,   \* records the HTML scrape strategy yielded
    fdata,      \* value get_item_data returned to its caller
    excel,      \* TRUE when direct_download_excel returned content
    excIn,      \* strategies inside which an exception was raised
    escaped,    \* TRUE when an exception left the leaf fetch
    saved,      \* records written to the output file by _process_single_item
    fret,       \* return value of _process_single_item (-1 while running)
    \* --- final_db_scraper.py ---
    pc,             \* position of the run
    run,            \* number of processes started so far
    progress,       \* self.progress, the ledger in memory
    disk,           \* the pickled ledger in the progress file
    sink,           \* bag of the rows committed to Form_F2_Data: <<key, record index>>
    date_ranges,    \* periods still to process
    warehouses,     \* self.warehouses after the filter
    wh_left,        \* warehouses still to process in the current period
    upazilas,       \* upazilas still to process in the current warehouse
    unions,         \* unions still to process in the current upazila
    item_list,      \* items still to process in the current union
    acc,            \* records_inserted / errors accumulated per level
    item,           \* the item being processed: data, records_inserted, write failure
    summary_log,    \* periods appended to the run summary
    summary_written,\* TRUE when logs/db_fetch_summary.json was written by this run
    doneAtStart,    \* progress['completed'] when the traversal started
    fetched,        \* item keys the leaf fetch was invoked for in this traversal
    skipped,        \* item keys skipped as already completed in this traversal
    \* --- db_scraper.py (no ledger, no dedup) ---
    plain,          \* position, run number, units left, data of the unit in hand
    plain_remote,   \* what the remote returns for each unit: number of records
    plain_sink,     \* bag of the rows committed to Form_F3_Data
    plain_first,    \* the sink as the first traversal left it, and whether that
                    \* traversal wrote every record of every unit
    \* --- db_scraper_with_resume.py (status table, dedup check) ---
    resume,         \* position, run number, units left, data of the unit in hand
    resume_sink,    \* bag of the rows committed to Form_F3_Data
    scrape_progress,\* the ScrapeProgress status table: unit -> status and count
    resume_writes,  \* per unit: how often its write was reached, what was committed
    \* --- fixed-scraper.py (BangladeshScraper, max_workers = 1) ---
    fixed,          \* position and the upazilas, unions and items still to process
    fixed_delivered,\* <<upazila, union>> of the well-formed unions get_unions returned
    fixed_processed,\* <<upazila, union>> of the unions process_union returned for
    fixed_results,  \* union_results["errors"] entries and data files written
    fixed_errors,   \* self.stats["errors"]
    \* --- fixed-scraper.py: one logical request (the retry loop of a get_* method) ---
    rq,             \* the request: kind, loop index, outcome and wait of each attempt, result
    \* --- final_db_scraper.py: the head of fetch_all_data_to_db ---
    rs,             \* arguments, ledger resume fields, resulting date_ranges and warehouses
    \* --- final_db_scraper.py: fetch_all_data_to_db with max_workers > 1 ---
    pool,           \* position of the main thread and the periods no worker has taken yet
    workers,        \* per worker thread: its period, the units left, its step, its locals
    pool_progress,  \* self.progress shared by the workers: completed, failed, stats counter
    pool_ghost,     \* bookkeeping: keys checked, increments applied, keys done at the start
    \* --- fixed-scraper.py: process_month and process_warehouse with max_workers > 1 ---
    wh_pool,        \* the executor of process_month: position, warehouses not yet taken
    wh_threads,     \* per thread of that executor: warehouse, step, upazilas not yet taken
    upz_threads,    \* per thread of the executor of a process_warehouse: upazila, step
    \* --- process_union_data (data_processor.py) / process_union_data_to_db ---
    un,             \* one union: the tabs discovered, the items handed on, the status set
    \* --- fixed-scraper.py: get_upazilas over periods and warehouses ---
    disc,           \* the call in hand: period, warehouse, step
    disc_posts,     \* <<period, warehouse>> of the requests posted
    disc_visits,    \* per call returned: period, warehouse, the list and where it came from
    \* --- get_upazilas / get_unions on one list in three shapes ---
    shp,            \* the listing operation, the regions held remotely, the list returned per shape
    \* --- the structured-API parse of one aaData payload ---
    prs,            \* the implementation, the rows of the payload, the records returned
    \* --- data_fetcher.py: scrape_item_data on one answer ---
    scr,            \* the answer of the page, the records returned, whether an exception occurred
    \* --- fixed-scraper.py: generate_date_ranges ---
    gen,            \* start and end, the loop variables, the list built so far
    \* --- final_db_scraper.py / db_scraper.py: main, from the arguments to the exit status ---
    mn,             \* arguments, environment, step, what the run did, exit status
    \* --- final_db_scraper.py: update_completion_status alone ---
    ledger_calls,   \* per key: the status of its last call and of the one before
    \* --- data_processor.py / final_db_scraper.py: the summaries written ---
    flush,          \* program, position in the tree, nodes finished, summaries in a file
    \* --- the sleeps at the ends of the loops ---
    dly             \* program and, per level, the turns ended and the least and largest delay

fetchVars == <<fpc, tried, apiRecs, htmlRecs, fdata, excel, excIn, escaped, saved, fret>>

finalVars == <<pc, run, progress, disk, sink, date_ranges, warehouses, wh_left, upazilas,
               unions, item_list, acc, item, summary_log, summary_written, doneAtStart,
               fetched, skipped>>

plainVars == <<plain, plain_remote, plain_sink, plain_first>>

resumeVars == <<resume, resume_sink, scrape_progress, resume_writes>>

fixedVars == <<fixed, fixed_delivered, fixed_processed, fixed_results, fixed_errors>>

retryVars == <<rq>>

resolveVars == <<rs>>

poolVars == <<pool, workers, pool_progress, pool_ghost>>

nestedVars == <<wh_pool, wh_threads, upz_threads>>

unionVars == <<un>>

discoverVars == <<disc, disc_posts, disc_visits>>

shapesVars == <<shp>>

parseVars == <<prs>>

scrapeVars == <<scr>>

datesVars == <<gen>>

mainVars == <<mn>>

ledgerVars == <<ledger_calls>>

flushVars == <<flush>>

delayVars == <<dly>>

vars == <<fetchVars, finalVars, plainVars, resumeVars, fixedVars, retryVars, resolveVars,
          poolVars, nestedVars, unionVars, discoverVars, shapesVars, parseVars, scrapeVars,
          datesVars, mainVars, ledgerVars, flushVars, delayVars>>

\* Each program leaves the variables of the other programs alone.
notFetch == <<finalVars, plainVars, resumeVars, fixedVars, retryVars, resolveVars, poolVars, nestedVars, unionVars, discoverVars, shapesVars, parseVars, scrapeVars, datesVars, mainVars, ledgerVars, flushVars, delayVars>>
notFinal == <<fetchVars, plainVars, resumeVars, fixedVars, retryVars, resolveVars, poolVars, nestedVars, unionVars, discoverVars, shapesVars, parseVars, scrapeVars, datesVars, mainVars, ledgerVars, flushVars, delayVars>>
notPlain == <<fetchVars, finalVars, resumeVars, fixedVars, retryVars, resolveVars, poolVars, nestedVars, unionVars, discoverVars, shapesVars, parseVars, scrapeVars, datesVars, mainVars, ledgerVars, flushVars, delayVars>>
notResume == <<fetchVars, finalVars, plainVars, fixedVars, retryVars, resolveVars, poolVars, nestedVars, unionVars, discoverVars, shapesVars, parseVars, scrapeVars, datesVars, mainVars, ledgerVars, flushVars, delayVars>>
notFixed == <<fetchVars, finalVars, plainVars, resumeVars, retryVars, resolveVars, poolVars, nestedVars, unionVars, discoverVars, shapesVars, parseVars, scrapeVars, datesVars, mainVars, ledgerVars, flushVars, delayVars>>
notRetry == <<fetchVars, finalVars, plainVars, resumeVars, fixedVars, resolveVars, poolVars, nestedVars, unionVars, discoverVars, shapesVars, parseVars, scrapeVars, datesVars, mainVars, ledgerVars, flushVars, delayVars>>
notResolve == <<fetchVars, finalVars, plainVars, resumeVars, fixedVars, retryVars, poolVars, nestedVars, unionVars, discoverVars, shapesVars, parseVars, scrapeVars, datesVars, mainVars, ledgerVars, flushVars, delayVars>>
notPool == <<fetchVars, finalVars, plainVars, resumeVars, fixedVars, retryVars, resolveVars, nestedVars, unionVars, discoverVars, shapesVars, parseVars, scrapeVars, datesVars, mainVars, ledgerVars, flushVars, delayVars>>
notNested == <<fetchVars, finalVars, plainVars, resumeVars, fixedVars, retryVars, resolveVars, poolVars, unionVars, discoverVars, shapesVars, parseVars, scrapeVars, datesVars, mainVars, ledgerVars, flushVars, delayVars>>
notUnion == <<fetchVars, finalVars, plainVars, resumeVars, fixedVars, retryVars, resolveVars, poolVars, nestedVars, discoverVars, shapesVars, parseVars, scrapeVars, datesVars, mainVars, ledgerVars, flushVars, delayVars>>
notDiscover == <<fetchVars, finalVars, plainVars, resumeVars, fixedVars, retryVars, resolveVars, poolVars, nestedVars, unionVars, shapesVars, parseVars, scrapeVars, datesVars, mainVars, ledgerVars, flushVars, delayVars>>
notShapes == <<fetchVars, finalVars, plainVars, resumeVars, fixedVars, retryVars, resolveVars, poolVars, nestedVars, unionVars, discoverVars, parseVars, scrapeVars, datesVars, mainVars, ledgerVars, flushVars, delayVars>>
notParse == <<fetchVars, finalVars, plainVars, resumeVars, fixedVars, retryVars, resolveVars, poolVars, nestedVars, unionVars, discoverVars, shapesVars, scrapeVars, datesVars, mainVars, ledgerVars, flushVars, delayVars>>
notScrape == <<fetchVars, finalVars, plainVars, resumeVars, fixedVars, retryVars, resolveVars, poolVars, nestedVars, unionVars, discoverVars, shapesVars, parseVars, datesVars, mainVars, ledgerVars, flushVars, delayVars>>
notDates == <<fetchVars, finalVars, plainVars, resumeVars, fixedVars, retryVars, resolveVars, poolVars, nestedVars, unionVars, discoverVars, shapesVars, parseVars, scrapeVars, mainVars, ledgerVars, flushVars, delayVars>>
notMain == <<fetchVars, finalVars, plainVars, resumeVars, fixedVars, retryVars, resolveVars, poolVars, nestedVars, unionVars, discoverVars, shapesVars, parseVars, scrapeVars, datesVars, ledgerVars, flushVars, delayVars>>
notLedger == <<fetchVars, finalVars, plainVars, resumeVars, fixedVars, retryVars, resolveVars, poolVars, nestedVars, unionVars, discoverVars, shapesVars, parseVars, scrapeVars, datesVars, mainVars, flushVars, delayVars>>
notFinalLedger == <<fetchVars, plainVars, resumeVars, fixedVars, retryVars, resolveVars, poolVars, nestedVars, unionVars, discoverVars, shapesVars, parseVars, scrapeVars, datesVars, mainVars, flushVars, delayVars>>
notFlush == <<fetchVars, finalVars, plainVars, resumeVars, fixedVars, retryVars, resolveVars, poolVars, nestedVars, unionVars, discoverVars, shapesVars, parseVars, scrapeVars, datesVars, mainVars, ledgerVars, delayVars>>
notDelay == <<fetchVars, finalVars, plainVars, resumeVars, fixedVars, retryVars, resolveVars, poolVars, nestedVars, unionVars, discoverVars, shapesVars, parseVars, scrapeVars, datesVars, mainVars, ledgerVars, flushVars>>

\* ------------------------------------------------------------ small helpers
SeqsUpTo(S, n) == UNION {[1..k -> S] : k \in 0..n}

\* the elements of a sequence
Range(s) == {s[i] : i \in DOMAIN s}

\* ================================================================ LEAF FETCH
\* One aaData row as the parse of get_item_data sees it:
\*   c0e   - row[0] == ''
\*   gt    - 'Grand Total' in row[1]
\*   short - the row has fewer than 13 cells (indexing it raises IndexError)
\*   tick  - 'tick.png' in row[12]
ApiRow == [c0e : BOOLEAN, gt : BOOLEAN, short : BOOLEAN, tick : BOOLEAN]

\* What the POST of the structured API can come back with.
\*   none    - _make_request returned None, or the response text is empty
\*   raise   - an exception inside the request
\*   badjson - response.json() raises JSONDecodeError
\*   scalar  - the JSON value supports no 'in' test (TypeError)
\*   aaData  - a JSON object with key aaData holding rows
\*   data    - a JSON object with key data holding n raw records
\*   list    - a JSON array of n raw records
\*   other   - a JSON object with none of the expected keys
ApiResponses ==
    [kind : {"none", "raise", "badjson", "scalar", "other"}, rows : {<<>>}]
    \cup [kind : {"aaData"}, rows : SeqsUpTo(ApiRow, MaxRows)]
    \cup [kind : {"data", "list"},
          rows : {[i \in 1..n |-> [c0e |-> FALSE, gt |-> FALSE, short |-> FALSE, tick |-> FALSE]] :
                    n \in 0..MaxRows}]

\* One <tr> of the scraped table: gt - 'Grand Total' in row.text,
\* few - fewer than 8 <td> cells.
HtmlRow == [gt : BOOLEAN, few : BOOLEAN]

\*   none    - _make_request returned None
\*   raise   - an exception inside the request or BeautifulSoup
\*   notable - no table matches
\*   notbody - the table has no <tbody> (table.find('tbody') is None)
\*   table   - a table with rows
HtmlResponses ==
    [kind : {"none", "raise", "notable", "notbody"}, rows : {<<>>}]
    \cup [kind : {"table"}, rows : SeqsUpTo(HtmlRow, MaxRows)]

\*   none - no response or empty content; raise - exception; content - bytes
ExcelResponses == {"none", "raise", "content"}

\* The records made of the rows whose index is in keep, in payload order.  A record
\* is <<strategy, index of its row in the payload, eligible>>.
KeptFrom(src, rows, keep, eligible) ==
    LET F[i \in 0..Len(rows)] ==
            IF i = 0 THEN <<>>
            ELSE IF i \in keep THEN Append(F[i - 1], <<src, i, i \in eligible>>)
            ELSE F[i - 1]
    IN F[Len(rows)]

\* data_fetcher.py 130-157: the row loop of the structured-API parse.
\* A row is skipped when row[0] == '' and 'Grand Total' in row[1]; any other row is
\* indexed up to row[12], which raises on a short row.
ApiRowSkipped(row) == row.c0e /\ row.gt
ApiRowRaises(row) == ~ApiRowSkipped(row) /\ row.short
ApiRowKept(row) == ~ApiRowSkipped(row)
\* data_fetcher.py 148: 'eligible': True if 'tick.png' in row[12] else False
ApiRowEligible(row) == row.tick

\* data_fetcher.py 117-174: the structured-API strategy inside get_item_data.
\* ret - the function returned from inside the try (no fall-through to the scrape);
\* recs - the records it returned; exc - an exception was raised (and caught).
ApiStrategy(resp) ==
    CASE resp.kind = "none"    -> [ret |-> FALSE, recs |-> <<>>, exc |-> FALSE]
      [] resp.kind = "raise"   -> [ret |-> FALSE, recs |-> <<>>, exc |-> TRUE]
      [] resp.kind = "badjson" -> [ret |-> FALSE, recs |-> <<>>, exc |-> TRUE]
      [] resp.kind = "scalar"  -> [ret |-> FALSE, recs |-> <<>>, exc |-> TRUE]
      [] resp.kind = "other"   -> [ret |-> TRUE,  recs |-> <<>>, exc |-> FALSE]
      [] resp.kind \in {"data", "list"} ->
            [ret |-> TRUE, recs |-> KeptFrom("api", resp.rows, DOMAIN resp.rows, {}),
             exc |-> FALSE]
      [] resp.kind = "aaData"  ->
            IF \E i \in DOMAIN resp.rows : ApiRowRaises(resp.rows[i])
            THEN [ret |-> FALSE, recs |-> <<>>, exc |-> TRUE]
            ELSE [ret |-> TRUE, exc |-> FALSE,
                  recs |-> KeptFrom("api", resp.rows,
                               {i \in DOMAIN resp.rows : ApiRowKept(resp.rows[i])},
                               {i \in DOMAIN resp.rows : ApiRowEligible(resp.rows[i])})]

\* The row test without the check of the number of cells.
HtmlRowKeptAnyLength(row) == ~row.gt

\* data_fetcher.py 231-237: rows of the scraped table that become records.
HtmlRowKept(row) == ~row.gt /\ ~row.few

\* scrape_item_data without its try/except: the exception leaves the function.
ScrapeExceptUncaught == [recs |-> <<>>, exc |-> TRUE, esc |-> TRUE]

\* data_fetcher.py 263-265: the except clause of scrape_item_data.
\* esc - the exception leaves scrape_item_data.
ScrapeExcept == [recs |-> <<>>, exc |-> TRUE, esc |-> FALSE]

\* data_fetcher.py 180-265: scrape_item_data.
scrape_item_data(resp) ==
    CASE resp.kind = "none"    -> [recs |-> <<>>, exc |-> FALSE, esc |-> FALSE]
      [] resp.kind = "raise"   -> ScrapeExcept
      [] resp.kind = "notable" -> [recs |-> <<>>, exc |-> FALSE, esc |-> FALSE]
      [] resp.kind = "notbody" -> ScrapeExcept
      [] resp.kind = "table"   ->
            [exc |-> FALSE, esc |-> FALSE,
             recs |-> KeptFrom("html", resp.rows,
                              {i \in DOMAIN resp.rows : HtmlRowKept(resp.rows[i])},
                              DOMAIN resp.rows)]

\* data_fetcher.py 267-296: direct_download_excel.
direct_download_excel(resp) ==
    CASE resp = "none"    -> [content |-> FALSE, exc |-> FALSE, esc |-> FALSE]
      [] resp = "raise"   -> [content |-> FALSE, exc |-> TRUE,  esc |-> FALSE]
      [] resp = "content" -> [content |-> TRUE,  exc |-> FALSE, esc |-> FALSE]

InitFetch ==
    /\ fpc = "api"
    /\ tried = <<>>
    /\ apiRecs = <<>>
    /\ htmlRecs = <<>>
    /\ fdata = <<>>
    /\ excel = FALSE
    /\ excIn = {}
    /\ escaped = FALSE
    /\ saved = <<>>
    /\ fret = -1

\* data_fetcher.py 95-178, first half: get_item_data up to the point where it either
\* returns from inside the try or falls through to scrape_item_data.
GetItemDataApi ==
    /\ fpc = "api"
    /\ \E resp \in ApiResponses :
          LET r == ApiStrategy(resp) IN
          /\ tried' = Append(tried, "api")
          /\ apiRecs' = r.recs
          /\ excIn' = IF r.exc THEN excIn \cup {"api"} ELSE excIn
          /\ IF r.ret
             THEN fdata' = r.recs /\ fpc' = "caller"
             ELSE fdata' = fdata /\ fpc' = "html"
    /\ UNCHANGED <<htmlRecs, excel, escaped, saved, fret>>
    /\ UNCHANGED notFetch

\* data_fetcher.py 176-178: the fall-through `return self.scrape_item_data(...)`.
GetItemDataScrape ==
    /\ fpc = "html"
    /\ \E resp \in HtmlResponses :
          LET r == scrape_item_data(resp) IN
          /\ tried' = Append(tried, "html")
          /\ htmlRecs' = r.recs
          /\ excIn' = IF r.exc THEN excIn \cup {"html"} ELSE excIn
          /\ escaped' = (escaped \/ r.esc)
          /\ fdata' = r.recs
          /\ fpc' = IF r.esc THEN "except" ELSE "caller"
    /\ UNCHANGED <<apiRecs, excel, saved, fret>>
    /\ UNCHANGED notFetch

\* The export step as if the downloaded content were parsed into a record and used
\* as the unit's data.
ProcessItemExcelParsed ==
    /\ fpc = "caller"
    /\ fdata = <<>>
    /\ \E resp \in ExcelResponses :
          LET r == direct_download_excel(resp) IN
          /\ tried' = Append(tried, "excel")
          /\ excel' = r.content
          /\ excIn' = IF r.exc THEN excIn \cup {"excel"} ELSE excIn
          /\ escaped' = (escaped \/ r.esc)
          /\ fdata' = IF r.content THEN <<<<"excel", 1, TRUE>>>> ELSE fdata
          /\ fpc' = IF r.esc THEN "except" ELSE IF r.content THEN "caller" ELSE "nodata"
    /\ UNCHANGED <<apiRecs, htmlRecs, saved, fret>>
    /\ UNCHANGED notFetch

\* data_processor.py 77-86: `if not data:` try the Excel download, whose content is
\* never parsed; then branch on `if data:`.
ProcessItemExcel ==
    /\ fpc = "caller"
    /\ fdata = <<>>
    /\ \E resp \in ExcelResponses :
          LET r == direct_download_excel(resp) IN
          /\ tried' = Append(tried, "excel")
          /\ excel' = r.content
          /\ excIn' = IF r.exc THEN excIn \cup {"excel"} ELSE excIn
          /\ escaped' = (escaped \/ r.esc)
          /\ fpc' = IF r.esc THEN "except" ELSE "nodata"
    /\ UNCHANGED <<apiRecs, htmlRecs, fdata, saved, fret>>
    /\ UNCHANGED notFetch

\* data_processor.py 86-117: `if data:` write the file and return 1; an error while
\* creating the directory or writing raises inside the try of _process_single_item.
ProcessItemSave ==
    /\ fpc = "caller"
    /\ fdata # <<>>
    /\ \E ok \in BOOLEAN :
          /\ saved' = IF ok THEN fdata ELSE saved
          /\ fret' = IF ok THEN 1 ELSE fret
          /\ fpc' = IF ok THEN "done" ELSE "except"
    /\ UNCHANGED <<tried, apiRecs, htmlRecs, fdata, excel, excIn, escaped>>
    /\ UNCHANGED notFetch

\* data_processor.py 118-120: no data, return 0.
ProcessItemNoData ==
    /\ fpc = "nodata"
    /\ fret' = 0
    /\ fpc' = "done"
    /\ UNCHANGED <<tried, apiRecs, htmlRecs, fdata, excel, excIn, escaped, saved>>
    /\ UNCHANGED notFetch

\* data_processor.py 122-124: the except of _process_single_item: log, return 0.
ProcessItemExcept ==
    /\ fpc = "except"
    /\ fret' = 0
    /\ fpc' = "done"
    /\ UNCHANGED <<tried, apiRecs, htmlRecs, fdata, excel, excIn, escaped, saved>>
    /\ UNCHANGED notFetch

NextFetch ==
    \/ GetItemDataApi
    \/ GetItemDataScrape
    \/ ProcessItemExcel
    \/ ProcessItemSave
    \/ ProcessItemNoData
    \/ ProcessItemExcept

\* ------------------------------------------------------- leaf fetch: claims
FetchOrder == <<"api", "html", "excel">>

IsPrefix(s, t) == Len(s) <= Len(t) /\ \A i \in DOMAIN s : s[i] = t[i]

\* C9 (as stated): once the leaf fetch of a unit is over, the strategies were tried
\* in the order API, HTML scrape, export; the HTML scrape was attempted exactly when
\* the API yielded no records, the export exactly when the API and the scrape both
\* yielded none, and the result is the records of the first non-empty strategy.
C9_FallbackChainOrder ==
    fpc = "done" =>
        /\ IsPrefix(tried, FetchOrder)
        /\ ("html" \in Range(tried)) <=> (apiRecs = <<>>)
        /\ ("excel" \in Range(tried)) <=> (apiRecs = <<>> /\ htmlRecs = <<>>)
        /\ fdata = IF apiRecs # <<>> THEN apiRecs ELSE htmlRecs

\* C10: an exception raised inside a strategy never leaves the leaf fetch, and the
\* strategy in which it was raised yields nothing (empty list / no content).
C10_StrategyExceptionsContained ==
    /\ ~escaped
    /\ ("api" \in excIn) => apiRecs = <<>>
    /\ ("html" \in excIn) => htmlRecs = <<>>
    /\ ("excel" \in excIn) => ~excel
    /\ (excIn # {} /\ fpc \in {"caller", "nodata"} /\ Len(tried) = Cardinality(excIn))
          => fdata = <<>>

\* C10 witness: a unit whose three strategies all raised has finished normally.
C10_Witness == fpc = "done" /\ excIn = {"api", "html", "excel"} /\ fret = 0

\* C38: the export download changes nothing of the unit's result: whatever it
\* returns, the unit has no records and saves nothing, and a unit for which the
\* export was tried ends as "no data" (return value 0), also when the export
\* delivered content.
C38_ExportNoEffect ==
    /\ ("excel" \in Range(tried)) => (fdata = <<>> /\ saved = <<>>)
    /\ (fpc = "done" /\ "excel" \in Range(tried)) => fret = 0

\* C38 witness: the API and the scrape gave nothing, the export delivered content
\* without any exception, and the unit has returned.
C38_Witness ==
    fpc = "done" /\ tried = FetchOrder /\ excel /\ excIn = {} /\ fret = 0

\* ======================================================= final_db_scraper.py
\* FinalDatabaseScraper with max_workers = 1 (the sequential branch of
\* fetch_all_data_to_db).  A period is its index in the configured range; a key field
\* that is None in the code is NoId here.
NoId == "-"

\* final_db_scraper.py 256: progress is saved when items_processed % 10 == 0.
SaveEvery == 10

\* generate_date_ranges() of the configured range, and the warehouse table the
\* scraper is constructed with.
ConfiguredPeriods == <<1>>
ConfiguredWarehouses == <<[whrec_id |-> "WH-001", wh_name |-> "Dhaka CWH"]>>

\* --warehouse values: none, an id, part of an id, part of a name, no match.
WarehouseArgs == {"", "WH-001", "001", "dhaka", "WH-999"}

\* `a in b` for the strings above (substring test, line 701) and
\* `a.lower() in b.lower()` (line 706).
SubstringOf(a, b) ==
    <<a, b>> \in {<<"WH-001", "WH-001">>, <<"001", "WH-001">>,
                  <<"WH-002", "WH-002">>, <<"002", "WH-002">>}
LowerSubstringOf(a, b) ==
    <<a, b>> \in {<<"dhaka", "Dhaka CWH">>, <<"khulna", "Khulna RWH">>}

\* self.items, the static catalog.
StaticItems == <<"I1", "I2">>

\* What discovery can return.  An entry "" stands for an element without id or name,
\* an entry "!" for an element of the JSON list that is not an object (get_unions
\* returns any JSON list as it is, data_fetcher.py 48-51).
UpazilaLists == {<<>>, <<"U1">>, <<"U1", "">>}
UnionLists == {<<>>, <<"N1">>, <<"">>, <<"N1", "!">>}
ItemTabLists == {<<>>, <<"I1">>, <<"I2", "I1">>, <<"", "I2">>}

EmptyProgress ==
    [completed |-> {}, failed |-> {}, last_period |-> 0, last_warehouse |-> "",
     records_inserted |-> 0, items_processed |-> 0, unions_processed |-> 0,
     upazilas_processed |-> 0, warehouses_processed |-> 0]

\* check_completion_status that never reports a key as completed.
check_completion_status_blind(key) == "none"

\* final_db_scraper.py 198-215.
check_completion_status(key) ==
    IF key \in progress.completed THEN "completed"
    ELSE IF key \in progress.failed THEN "failed"
    ELSE "none"

\* update_completion_status that leaves the record counter alone.
update_completion_status_uncounted(key, level, status, records) ==
    [progress EXCEPT
        !.completed = IF status = "completed" THEN @ \cup {key} ELSE @ \ {key},
        !.failed = IF status = "completed" THEN @ \ {key} ELSE @ \cup {key},
        !.items_processed = IF level = "item" THEN @ + 1 ELSE @,
        !.last_period = key[1],
        !.last_warehouse = key[2]]

\* update_completion_status that adds the key to the set of its status and leaves
\* the other set alone.
update_completion_status_keeps(key, level, status, records) ==
    [progress EXCEPT
        !.completed = IF status = "completed" THEN @ \cup {key} ELSE @,
        !.failed = IF status = "completed" THEN @ ELSE @ \cup {key},
        !.records_inserted = @ + records,
        !.items_processed = IF level = "item" THEN @ + 1 ELSE @,
        !.unions_processed = IF level = "union" THEN @ + 1 ELSE @,
        !.upazilas_processed = IF level = "upazila" THEN @ + 1 ELSE @,
        !.warehouses_processed = IF level = "warehouse" THEN @ + 1 ELSE @,
        !.last_period = key[1],
        !.last_warehouse = key[2]]

\* final_db_scraper.py 217-253: the in-memory part of update_completion_status.
\* level is "item", "union", "upazila" or "warehouse".
update_completion_status(key, level, status, records) ==
    [progress EXCEPT
        !.completed = IF status = "completed" THEN @ \cup {key} ELSE @ \ {key},
        !.failed = IF status = "completed" THEN @ \ {key} ELSE @ \cup {key},
        !.records_inserted = @ + records,
        !.items_processed = IF level = "item" THEN @ + 1 ELSE @,
        !.unions_processed = IF level = "union" THEN @ + 1 ELSE @,
        !.upazilas_processed = IF level = "upazila" THEN @ + 1 ELSE @,
        !.warehouses_processed = IF level = "warehouse" THEN @ + 1 ELSE @,
        !.last_period = key[1],
        !.last_warehouse = key[2]]

\* final_db_scraper.py 255-257: `if records > 0 or items_processed % 10 == 0`.
SavesProgress(p, records) == records > 0 \/ p.items_processed % SaveEvery = 0

\* final_db_scraper.py 259-268: <<>> for None.
find_resumption_point ==
    IF progress.last_period = 0 \/ progress.last_warehouse = ""
    THEN <<>>
    ELSE <<progress.last_period, progress.last_warehouse>>

\* final_db_scraper.py 674, 683: periods not earlier than the resume period.
NotEarlier(periods, from) == SelectSeq(periods, LAMBDA d : d >= from)

\* final_db_scraper.py 694-706: exact id, then part of an id, then part of a name.
FilterWarehouses(whs, specific) ==
    LET exact == SelectSeq(whs, LAMBDA wh : specific = wh.whrec_id)
        partial == SelectSeq(whs, LAMBDA wh : SubstringOf(specific, wh.whrec_id))
        byname == SelectSeq(whs, LAMBDA wh : LowerSubstringOf(specific, wh.wh_name))
    IN IF exact # <<>> THEN exact ELSE IF partial # <<>> THEN partial ELSE byname

\* The keys of the node being processed, built as in lines 201-207.
WarehouseKey == <<Head(date_ranges), Head(wh_left).whrec_id, NoId, NoId, NoId>>
UpazilaKey == <<Head(date_ranges), Head(wh_left).whrec_id, Head(upazilas), NoId, NoId>>
UnionKey == <<Head(date_ranges), Head(wh_left).whrec_id, Head(upazilas), Head(unions), NoId>>
ItemKey ==
    <<Head(date_ranges), Head(wh_left).whrec_id, Head(upazilas), Head(unions), Head(item_list)>>

IsItemKey(key) == key[5] # NoId

\* The row of Form_F2_Data made of record i of a unit.
Rows(key, idx) == {<<key, i>> : i \in idx}

\* final_db_scraper.py 270-323: the possible results of _batch_insert_records for n
\* records.  ok = FALSE: connect or commit raised, nothing is committed and 0 is
\* returned.  ok = TRUE: the records whose insert did not raise are committed.
batch_insert_records(n) ==
    IF n = 0 THEN {[ok |-> TRUE, idx |-> {}, records_inserted |-> 0]}
    ELSE {[ok |-> FALSE, idx |-> {}, records_inserted |-> 0]}
         \cup {[ok |-> TRUE, idx |-> S, records_inserted |-> Cardinality(S)] : S \in SUBSET (1..n)}

\* final_db_scraper.py 189-196: _save_progress.  The file is rewritten in place: it
\* is replaced, left alone (open failed), or left unreadable (dump failed), and an
\* unreadable file loads as the empty structure (lines 169-187).
SavedFile(p) == {p, disk, EmptyProgress}

\* update_completion_status followed by its conditional _save_progress (217-257).
Mark(key, level, status, records) ==
    LET p == update_completion_status(key, level, status, records) IN
    /\ progress' = p
    /\ disk' \in (IF SavesProgress(p, records) THEN SavedFile(p) ELSE {disk})

NoItem == [key |-> <<>>, n |-> 0, idx |-> {}, records_inserted |-> 0, wfail |-> FALSE,
           path |-> "idle"]
NoAcc == [union |-> 0, upazila |-> 0, warehouse |-> 0, errors |-> 0, tabs_raised |-> FALSE]

InitFinal ==
    /\ pc = "init"
    /\ run = 1
    /\ progress = EmptyProgress
    /\ disk = EmptyProgress
    /\ sink = EmptyBag
    /\ date_ranges = <<>>
    /\ warehouses = ConfiguredWarehouses
    /\ wh_left = <<>>
    /\ upazilas = <<>>
    /\ unions = <<>>
    /\ item_list = <<>>
    /\ acc = NoAcc
    /\ item = NoItem
    /\ summary_log = <<>>
    /\ summary_written = FALSE
    /\ doneAtStart = {}
    /\ fetched = {}
    /\ skipped = {}

\* final_db_scraper.py 665-721: resume filter, warehouse filter, early return.
FetchAllStart ==
    /\ pc = "init"
    /\ \E resume_from \in {0} \cup Range(ConfiguredPeriods), specific_warehouse \in WarehouseArgs :
          LET point == find_resumption_point
              dates == IF resume_from # 0 THEN NotEarlier(ConfiguredPeriods, resume_from)
                       ELSE IF point # <<>> THEN NotEarlier(ConfiguredPeriods, point[1])
                       ELSE ConfiguredPeriods
              specific == IF resume_from = 0 /\ point # <<>> /\ specific_warehouse = ""
                          THEN point[2] ELSE specific_warehouse
              filtered == FilterWarehouses(warehouses, specific)
          IN IF specific # "" /\ filtered = <<>>
             THEN /\ pc' = "ended"
                  /\ UNCHANGED <<date_ranges, warehouses>>
             ELSE /\ pc' = "month"
                  /\ date_ranges' = dates
                  /\ warehouses' = IF specific # "" THEN filtered ELSE warehouses
    /\ doneAtStart' = progress.completed
    /\ UNCHANGED <<run, progress, disk, sink, wh_left, upazilas, unions, item_list, acc, item,
                   summary_log, summary_written, fetched, skipped>>
    /\ UNCHANGED notFinal

\* final_db_scraper.py 739-741, 633-646: the next period is started.
MonthStart ==
    /\ pc = "month" /\ date_ranges # <<>>
    /\ wh_left' = warehouses
    /\ pc' = "warehouse"
    /\ UNCHANGED <<run, progress, disk, sink, date_ranges, warehouses, upazilas, unions,
                   item_list, acc, item, summary_log, summary_written, doneAtStart, fetched,
                   skipped>>
    /\ UNCHANGED notFinal

\* final_db_scraper.py 662-663, 742: the period is finished and appended to the summary.
MonthDone ==
    /\ pc = "warehouse" /\ wh_left = <<>>
    /\ summary_log' = Append(summary_log, Head(date_ranges))
    /\ date_ranges' = Tail(date_ranges)
    /\ pc' = "month"
    /\ UNCHANGED <<run, progress, disk, sink, warehouses, wh_left, upazilas, unions, item_list,
                   acc, item, summary_written, doneAtStart, fetched, skipped>>
    /\ UNCHANGED notFinal

\* final_db_scraper.py 567-579: a completed warehouse-month is skipped.
WarehouseSkip ==
    /\ pc = "warehouse" /\ wh_left # <<>>
    /\ check_completion_status(WarehouseKey) = "completed"
    /\ wh_left' = Tail(wh_left)
    /\ UNCHANGED <<pc, run, progress, disk, sink, date_ranges, warehouses, upazilas, unions,
                   item_list, acc, item, summary_log, summary_written, doneAtStart, fetched,
                   skipped>>
    /\ UNCHANGED notFinal

\* final_db_scraper.py 581-595: get_upazilas for the warehouse and period.
WarehouseStart ==
    /\ pc = "warehouse" /\ wh_left # <<>>
    /\ check_completion_status(WarehouseKey) # "completed"
    /\ upazilas' \in UpazilaLists
    /\ acc' = [acc EXCEPT !.warehouse = 0, !.errors = 0]
    /\ pc' = "upazila"
    /\ UNCHANGED <<run, progress, disk, sink, date_ranges, warehouses, wh_left, unions,
                   item_list, item, summary_log, summary_written, doneAtStart, fetched, skipped>>
    /\ UNCHANGED notFinal

\* final_db_scraper.py 622-631: the warehouse-month is marked, then the next one.
WarehouseDone ==
    /\ pc = "upazila" /\ upazilas = <<>>
    /\ Mark(WarehouseKey, "warehouse",
            IF acc.warehouse > 0 /\ acc.errors = 0 THEN "completed" ELSE "failed", 0)
    /\ wh_left' = Tail(wh_left)
    /\ acc' = NoAcc
    /\ pc' = "warehouse"
    /\ UNCHANGED <<run, sink, date_ranges, warehouses, upazilas, unions, item_list, item,
                   summary_log, summary_written, doneAtStart, fetched, skipped>>
    /\ UNCHANGED notFinal

\* final_db_scraper.py 506-511: an upazila without id or name is reported as an error.
UpazilaInvalid ==
    /\ pc = "upazila" /\ upazilas # <<>> /\ Head(upazilas) = ""
    /\ acc' = [acc EXCEPT !.errors = @ + 1]
    /\ upazilas' = Tail(upazilas)
    /\ UNCHANGED <<pc, run, progress, disk, sink, date_ranges, warehouses, wh_left, unions,
                   item_list, item, summary_log, summary_written, doneAtStart, fetched, skipped>>
    /\ UNCHANGED notFinal

\* final_db_scraper.py 513-517: a completed upazila is skipped.
UpazilaSkip ==
    /\ pc = "upazila" /\ upazilas # <<>> /\ Head(upazilas) # ""
    /\ check_completion_status(UpazilaKey) = "completed"
    /\ upazilas' = Tail(upazilas)
    /\ UNCHANGED <<pc, run, progress, disk, sink, date_ranges, warehouses, wh_left, unions,
                   item_list, acc, item, summary_log, summary_written, doneAtStart, fetched,
                   skipped>>
    /\ UNCHANGED notFinal

\* final_db_scraper.py 519-527: get_unions for the upazila.
UpazilaStart ==
    /\ pc = "upazila" /\ upazilas # <<>> /\ Head(upazilas) # ""
    /\ check_completion_status(UpazilaKey) # "completed"
    /\ unions' \in UnionLists
    /\ acc' = [acc EXCEPT !.upazila = 0]
    /\ pc' = "union"
    /\ UNCHANGED <<run, progress, disk, sink, date_ranges, warehouses, wh_left, upazilas,
                   item_list, item, summary_log, summary_written, doneAtStart, fetched, skipped>>
    /\ UNCHANGED notFinal

\* final_db_scraper.py 549-560, 602-604: the upazila is marked and its totals are added
\* to the warehouse summary.  No exception leaves process_union_data_to_db here, so the
\* upazila's error list is empty.
UpazilaDone ==
    /\ pc = "union" /\ unions = <<>>
    /\ Mark(UpazilaKey, "upazila", IF acc.upazila > 0 THEN "completed" ELSE "failed", 0)
    /\ acc' = [acc EXCEPT !.warehouse = @ + acc.upazila, !.upazila = 0]
    /\ upazilas' = Tail(upazilas)
    /\ pc' = "upazila"
    /\ UNCHANGED <<run, sink, date_ranges, warehouses, wh_left, unions, item_list, item,
                   summary_log, summary_written, doneAtStart, fetched, skipped>>
    /\ UNCHANGED notFinal

\* final_db_scraper.py 439, 541-544, 614-617: union.get raises for an element that
\* is not an object; the handler at 541 calls union.get again, so the exception
\* leaves process_upazila_to_db and is recorded by the warehouse loop.  The upazila
\* is not marked and its remaining unions are not processed.
UnionRaises ==
    /\ pc = "union" /\ unions # <<>> /\ Head(unions) = "!"
    /\ acc' = [acc EXCEPT !.errors = @ + 1, !.upazila = 0]
    /\ unions' = <<>>
    /\ upazilas' = Tail(upazilas)
    /\ pc' = "upazila"
    /\ UNCHANGED <<run, progress, disk, sink, date_ranges, warehouses, wh_left, item_list,
                   item, summary_log, summary_written, doneAtStart, fetched, skipped>>
    /\ UNCHANGED notFinal

\* final_db_scraper.py 439-444: a union without code or name returns 0.
UnionInvalid ==
    /\ pc = "union" /\ unions # <<>> /\ Head(unions) = ""
    /\ unions' = Tail(unions)
    /\ UNCHANGED <<pc, run, progress, disk, sink, date_ranges, warehouses, wh_left, upazilas,
                   item_list, acc, item, summary_log, summary_written, doneAtStart, fetched,
                   skipped>>
    /\ UNCHANGED notFinal

\* final_db_scraper.py 446-450: a completed union is skipped.
UnionSkip ==
    /\ pc = "union" /\ unions # <<>> /\ Head(unions) \notin {"", "!"}
    /\ check_completion_status(UnionKey) = "completed"
    /\ unions' = Tail(unions)
    /\ UNCHANGED <<pc, run, progress, disk, sink, date_ranges, warehouses, wh_left, upazilas,
                   item_list, acc, item, summary_log, summary_written, doneAtStart, fetched,
                   skipped>>
    /\ UNCHANGED notFinal

\* final_db_scraper.py 457-483: get_item_tab; the discovered tabs when there are any,
\* the static catalog otherwise.
UnionStart ==
    /\ pc = "union" /\ unions # <<>> /\ Head(unions) \notin {"", "!"}
    /\ check_completion_status(UnionKey) # "completed"
    /\ \E item_tabs \in ItemTabLists :
          item_list' = IF item_tabs # <<>> THEN item_tabs ELSE StaticItems
    /\ acc' = [acc EXCEPT !.union = 0, !.tabs_raised = FALSE]
    /\ pc' = "item"
    /\ UNCHANGED <<run, progress, disk, sink, date_ranges, warehouses, wh_left, upazilas,
                   unions, item, summary_log, summary_written, doneAtStart, fetched, skipped>>
    /\ UNCHANGED notFinal

\* final_db_scraper.py 491-500: get_item_tab raised: the union is marked failed and the
\* static catalog is processed.
UnionStartRaises ==
    /\ pc = "union" /\ unions # <<>> /\ Head(unions) \notin {"", "!"}
    /\ check_completion_status(UnionKey) # "completed"
    /\ Mark(UnionKey, "union", "failed", 0)
    /\ item_list' = StaticItems
    /\ acc' = [acc EXCEPT !.union = 0, !.tabs_raised = TRUE]
    /\ pc' = "item"
    /\ UNCHANGED <<run, sink, date_ranges, warehouses, wh_left, upazilas, unions, item,
                   summary_log, summary_written, doneAtStart, fetched, skipped>>
    /\ UNCHANGED notFinal

\* final_db_scraper.py 485-489, 502, 532-533: the union is marked (unless the except
\* branch already did) and its total is added to the upazila's.
UnionDone ==
    /\ pc = "item" /\ item_list = <<>>
    /\ IF acc.tabs_raised
       THEN UNCHANGED <<progress, disk>>
       ELSE Mark(UnionKey, "union", IF acc.union > 0 THEN "completed" ELSE "failed", 0)
    /\ acc' = [acc EXCEPT !.upazila = @ + acc.union, !.union = 0, !.tabs_raised = FALSE]
    /\ unions' = Tail(unions)
    /\ pc' = "union"
    /\ UNCHANGED <<run, sink, date_ranges, warehouses, wh_left, upazilas, item_list, item,
                   summary_log, summary_written, doneAtStart, fetched, skipped>>
    /\ UNCHANGED notFinal

\* final_db_scraper.py 468-472: a tab without code or name is passed over.
ItemTabInvalid ==
    /\ pc = "item" /\ item_list # <<>> /\ Head(item_list) = ""
    /\ item_list' = Tail(item_list)
    /\ UNCHANGED <<pc, run, progress, disk, sink, date_ranges, warehouses, wh_left, upazilas,
                   unions, acc, item, summary_log, summary_written, doneAtStart, fetched,
                   skipped>>
    /\ UNCHANGED notFinal

\* final_db_scraper.py 339-343: an item whose key is completed is skipped, returning 0.
ItemSkip ==
    /\ pc = "item" /\ item_list # <<>> /\ Head(item_list) # ""
    /\ check_completion_status(ItemKey) = "completed"
    /\ skipped' = skipped \cup {ItemKey}
    /\ item' = [NoItem EXCEPT !.key = ItemKey, !.path = "skipped"]
    /\ pc' = "itemret"
    /\ UNCHANGED <<run, progress, disk, sink, date_ranges, warehouses, wh_left, upazilas,
                   unions, item_list, acc, summary_log, summary_written, doneAtStart, fetched>>
    /\ UNCHANGED notFinal

\* final_db_scraper.py 347-362: the leaf fetch returned records.
ItemFetchData ==
    /\ pc = "item" /\ item_list # <<>> /\ Head(item_list) # ""
    /\ check_completion_status(ItemKey) # "completed"
    /\ fetched' = fetched \cup {ItemKey}
    /\ \E n \in 1..MaxRecs : item' = [NoItem EXCEPT !.key = ItemKey, !.n = n, !.path = "data"]
    /\ pc' = "insert"
    /\ UNCHANGED <<run, progress, disk, sink, date_ranges, warehouses, wh_left, upazilas,
                   unions, item_list, acc, summary_log, summary_written, doneAtStart, skipped>>
    /\ UNCHANGED notFinal

\* final_db_scraper.py 347-360, 421-427: the leaf fetch and the export download gave no
\* records: the unit is marked failed.
ItemFetchNoData ==
    /\ pc = "item" /\ item_list # <<>> /\ Head(item_list) # ""
    /\ check_completion_status(ItemKey) # "completed"
    /\ fetched' = fetched \cup {ItemKey}
    /\ item' = [NoItem EXCEPT !.key = ItemKey, !.path = "nodata"]
    /\ Mark(ItemKey, "item", "failed", 0)
    /\ pc' = "itemret"
    /\ UNCHANGED <<run, sink, date_ranges, warehouses, wh_left, upazilas, unions, item_list,
                   acc, summary_log, summary_written, doneAtStart, skipped>>
    /\ UNCHANGED notFinal

\* final_db_scraper.py 369-371, 429-435: the records returned are not dictionaries
\* (raw `data` or list payload), record.get raises, the except marks the unit failed.
ItemFetchRaises ==
    /\ pc = "item" /\ item_list # <<>> /\ Head(item_list) # ""
    /\ check_completion_status(ItemKey) # "completed"
    /\ fetched' = fetched \cup {ItemKey}
    /\ \E n \in 1..MaxRecs : item' = [NoItem EXCEPT !.key = ItemKey, !.n = n, !.path = "raised"]
    /\ Mark(ItemKey, "item", "failed", 0)
    /\ pc' = "itemret"
    /\ UNCHANGED <<run, sink, date_ranges, warehouses, wh_left, upazilas, unions, item_list,
                   acc, summary_log, summary_written, doneAtStart, skipped>>
    /\ UNCHANGED notFinal

\* final_db_scraper.py 412-413, 270-323: _batch_insert_records.
ItemInsert ==
    /\ pc = "insert"
    /\ \E r \in batch_insert_records(item.n) :
          /\ sink' = sink (+) SetToBag(Rows(item.key, r.idx))
          /\ item' = [item EXCEPT !.idx = r.idx, !.records_inserted = r.records_inserted,
                                  !.wfail = (~r.ok \/ r.idx # 1..item.n)]
    /\ pc' = "mark"
    /\ UNCHANGED <<run, progress, disk, date_ranges, warehouses, wh_left, upazilas, unions,
                   item_list, acc, summary_log, summary_written, doneAtStart, fetched, skipped>>
    /\ UNCHANGED notFinal

\* final_db_scraper.py 417-420: the unit is marked completed with records_inserted.
ItemMarkCompleted ==
    /\ pc = "mark"
    /\ Mark(item.key, "item", "completed", item.records_inserted)
    /\ item' = [item EXCEPT !.path = "written"]
    /\ pc' = "itemret"
    /\ UNCHANGED <<run, sink, date_ranges, warehouses, wh_left, upazilas, unions, item_list,
                   acc, summary_log, summary_written, doneAtStart, fetched, skipped>>
    /\ UNCHANGED notFinal

\* final_db_scraper.py 474-477, 482-483, 499-500: `records_inserted += ...`, next item.
ItemReturn ==
    /\ pc = "itemret"
    /\ acc' = [acc EXCEPT !.union = @ + item.records_inserted]
    /\ item_list' = Tail(item_list)
    /\ item' = NoItem
    /\ pc' = "item"
    /\ UNCHANGED <<run, progress, disk, sink, date_ranges, warehouses, wh_left, upazilas,
                   unions, summary_log, summary_written, doneAtStart, fetched, skipped>>
    /\ UNCHANGED notFinal

\* final_db_scraper.py 746-765: the run summary is written and the ledger saved.
FetchAllFinish ==
    /\ pc = "month" /\ date_ranges = <<>>
    /\ summary_written' = TRUE
    /\ disk' \in SavedFile(progress)
    /\ pc' = "ended"
    /\ UNCHANGED <<run, progress, sink, warehouses, date_ranges, wh_left, upazilas, unions,
                   item_list, acc, item, summary_log, doneAtStart, fetched, skipped>>
    /\ UNCHANGED notFinal

\* The process exits or is killed at any step; the next process is constructed:
\* final_db_scraper.py 126-133, 161-187 (_load_progress).
NewProcess ==
    /\ pc # "init" /\ run < MaxRuns
    /\ run' = run + 1
    /\ progress' = disk
    /\ pc' = "init"
    /\ date_ranges' = <<>>
    /\ warehouses' = ConfiguredWarehouses
    /\ wh_left' = <<>>
    /\ upazilas' = <<>>
    /\ unions' = <<>>
    /\ item_list' = <<>>
    /\ acc' = NoAcc
    /\ item' = NoItem
    /\ summary_log' = <<>>
    /\ summary_written' = FALSE
    /\ doneAtStart' = {}
    /\ fetched' = {}
    /\ skipped' = {}
    /\ UNCHANGED <<disk, sink>>
    /\ UNCHANGED notFinal

Next ==
    \/ FetchAllStart \/ MonthStart \/ MonthDone
    \/ WarehouseSkip \/ WarehouseStart \/ WarehouseDone
    \/ UpazilaInvalid \/ UpazilaSkip \/ UpazilaStart \/ UpazilaDone
    \/ UnionRaises \/ UnionInvalid \/ UnionSkip \/ UnionStart \/ UnionStartRaises \/ UnionDone
    \/ ItemTabInvalid \/ ItemSkip \/ ItemFetchData \/ ItemFetchNoData \/ ItemFetchRaises
    \/ ItemInsert \/ ItemMarkCompleted \/ ItemReturn
    \/ FetchAllFinish \/ NewProcess

\* ------------------------------------------------- final_db_scraper: claims
\* The rows of a unit's records 1..n that are in the sink.
InSink(key, n) == {i \in 1..n : CopiesIn(<<key, i>>, sink) > 0}

\* C1: no item key that was in the completed set when the traversal started is
\* handed to the leaf fetch by that traversal.
C1_SkipOnResume == fetched \cap doneAtStart = {}

\* C1 witness: a finished traversal that met an item key completed at its start and
\* skipped it, while fetching another unit.
C1_Witness ==
    /\ pc = "ended" /\ summary_written
    /\ \E k \in skipped : IsItemKey(k) /\ k \in doneAtStart
    /\ fetched # {}

\* C2 (as stated): in every reachable state, also after a kill, an item key in the
\* completed set has data in the sink: at least one row of that unit is there.
C2_WriteThenMark ==
    \A k \in progress.completed : IsItemKey(k) => InSink(k, MaxRecs) # {}

\* C5 (as stated): when the processing of a unit that was not already done returns,
\* a unit whose leaf fetch returned n > 0 records is completed, recorded with count
\* n, and has its n records in the sink; a unit with an empty result is failed.
C5_OutcomeRecording ==
    (pc = "itemret" /\ item.path \in {"written", "nodata"}) =>
        IF item.n > 0
        THEN /\ item.key \in progress.completed
             /\ item.records_inserted = item.n
             /\ InSink(item.key, item.n) = 1..item.n
        ELSE item.key \in progress.failed /\ item.key \notin progress.completed

\* C6 (as stated): a unit whose sink write failed (connect, insert or commit error)
\* is in the failed set and not in the completed set when its processing returns.
C6_PersistenceFailure ==
    (pc = "itemret" /\ item.wfail) =>
        item.key \in progress.failed /\ item.key \notin progress.completed

\* C8 (as stated): a run that has ended has written its run summary.
C8_RunCompletion == pc = "ended" => summary_written

\* The keys whose status in memory is not the status in the ledger file.
StatusOf(p, key) ==
    IF key \in p.completed THEN "completed" ELSE IF key \in p.failed THEN "failed" ELSE "none"

UnsavedKeys ==
    {key \in progress.completed \cup progress.failed \cup disk.completed \cup disk.failed :
        StatusOf(progress, key) # StatusOf(disk, key)}

\* C16 (as stated): at every point of a run at most one unit's status transition is
\* in memory only and not in the ledger file.
C16_BoundedLedgerLoss == Cardinality(UnsavedKeys) <= 1

\* The unit of the single-unit scenario: period 1, warehouse WH-001, one upazila,
\* one union, one item.
SingleUnit == <<1, "WH-001", "U1", "N1", "I1">>

\* The sink holds exactly two rows, both of the unit, each once.
TwoRowsOf(key) ==
    /\ BagCardinality(sink) = 2
    /\ \A row \in BagToSet(sink) : row[1] = key /\ CopiesIn(row, sink) = 1

\* The ledger holds the unit as its only item key, completed, with a count of 2.
LedgerHoldsOnly(key) ==
    /\ {k \in progress.completed : IsItemKey(k)} = {key}
    /\ {k \in progress.failed : IsItemKey(k)} = {}
    /\ progress.records_inserted = 2

\* C26: in a first run whose only leaf fetch is the single unit, when the fetch
\* returned two records and the sink took them, the sink holds one batch of exactly
\* two rows tagged with the unit and the ledger holds exactly that item key as
\* completed with a record count of 2, when the unit returns and when the run ends.
C26_SingleUnit ==
    /\ (/\ run = 1 /\ pc = "itemret" /\ item.path = "written" /\ item.n = 2
        /\ ~item.wfail /\ fetched = {SingleUnit} /\ item.key = SingleUnit)
       => TwoRowsOf(SingleUnit) /\ LedgerHoldsOnly(SingleUnit)
    /\ (/\ run = 1 /\ pc = "ended" /\ fetched = {SingleUnit}
        /\ BagCardinality(sink) = 2)
       => TwoRowsOf(SingleUnit) /\ LedgerHoldsOnly(SingleUnit)

\* C26 witness: the first run ended after fetching the single unit only, with its two
\* rows in the sink and the unit completed.
C26_Witness ==
    /\ run = 1 /\ pc = "ended" /\ fetched = {SingleUnit} /\ summary_written
    /\ TwoRowsOf(SingleUnit) /\ SingleUnit \in progress.completed

\* The item key lies beneath the aggregate key: it agrees with it on every field the
\* aggregate key holds.
Beneath(key, aggregate) ==
    /\ key[1] = aggregate[1] /\ key[2] = aggregate[2]
    /\ \A i \in 3..5 : aggregate[i] = NoId \/ aggregate[i] = key[i]

\* C30: a union, upazila or warehouse key is in the completed set only when no item
\* key beneath it is in the failed set.
C30_AggregateImpliesChildren ==
    \A k \in progress.completed :
        ~IsItemKey(k) => \A f \in progress.failed : IsItemKey(f) => ~Beneath(f, k)

\* The item keys beneath the union being processed that this run has passed: fetched
\* or skipped as already completed.
ItemsPassed == {k \in fetched \cup skipped : Beneath(k, UnionKey)}

\* C32: when the traversal finishes a union whose item units are all in the
\* completed set (a union whose items were all skipped as already done included),
\* the union's key is in the completed set and not in the failed set.
C32_AggregateConverges ==
    [][(/\ pc = "item" /\ item_list = <<>> /\ pc' = "union"
        /\ ItemsPassed # {} /\ ItemsPassed \subseteq progress.completed)
       => (UnionKey \in progress'.completed /\ UnionKey \notin progress'.failed)]_vars

\* ============================================================= db_scraper.py
\* DatabaseFamilyPlanningFetcher of db_scraper.py: every unit of the traversal is
\* fetched and inserted, there is no ledger and no existence check.  A unit is
\* <<union, item>> of one period, warehouse and upazila.
PlainUnits == <<<<"N1", "I1">>, <<"N1", "I2">>, <<"N2", "I1">>>>

InitPlain ==
    /\ plain = [pc |-> "start", run |-> 1, left |-> <<>>, n |-> 0]
    /\ plain_remote = [u \in Range(PlainUnits) |-> 0]
    /\ plain_sink = EmptyBag
    /\ plain_first = [sink |-> EmptyBag, complete |-> TRUE]

\* db_scraper.py 339-380: the first traversal starts; the remote holds some number of
\* records for each unit, the same for every later traversal.
PlainStart ==
    /\ plain.pc = "start"
    /\ plain_remote' \in [Range(PlainUnits) -> 0..MaxRecs]
    /\ plain' = [plain EXCEPT !.pc = "item", !.left = PlainUnits]
    /\ UNCHANGED <<plain_sink, plain_first>>
    /\ UNCHANGED notPlain

\* db_scraper.py 58-73, 152-154: the leaf fetch; no data returns 0.
PlainFetch ==
    /\ plain.pc = "item" /\ plain.left # <<>>
    /\ LET n == plain_remote[Head(plain.left)] IN
          plain' = IF n = 0 THEN [plain EXCEPT !.left = Tail(@)]
                   ELSE [plain EXCEPT !.pc = "insert", !.n = n]
    /\ UNCHANGED <<plain_remote, plain_sink, plain_first>>
    /\ UNCHANGED notPlain

\* db_scraper.py 82-151, 156-158: connect, insert each record (an insert error is
\* passed over), commit; an error of connect or commit returns 0 with nothing
\* committed.
PlainInsert ==
    /\ plain.pc = "insert"
    /\ \E r \in batch_insert_records(plain.n) :
          /\ plain_sink' = plain_sink (+) SetToBag(Rows(Head(plain.left), r.idx))
          /\ plain_first' = IF plain.run = 1 /\ r.idx # 1..plain.n
                            THEN [plain_first EXCEPT !.complete = FALSE]
                            ELSE plain_first
    /\ plain' = [plain EXCEPT !.pc = "item", !.n = 0, !.left = Tail(@)]
    /\ UNCHANGED plain_remote
    /\ UNCHANGED notPlain

\* db_scraper.py 339-415: the traversal ends; the program is run again over the same
\* periods and warehouses.
PlainRerun ==
    /\ plain.pc = "item" /\ plain.left = <<>> /\ plain.run < MaxRuns
    /\ plain' = [plain EXCEPT !.run = @ + 1, !.left = PlainUnits]
    /\ plain_first' = IF plain.run = 1 THEN [plain_first EXCEPT !.sink = plain_sink]
                      ELSE plain_first
    /\ UNCHANGED <<plain_remote, plain_sink>>
    /\ UNCHANGED notPlain

NextPlain == PlainStart \/ PlainFetch \/ PlainInsert \/ PlainRerun

\* C3 (as stated): when the first traversal has written every unit, a second traversal
\* over the same units with the same remote responses leaves the rows of the sink as
\* the first traversal left them.
C3_RerunNoOp ==
    (plain.run >= 2 /\ plain_first.complete) => plain_sink = plain_first.sink

\* ================================================= db_scraper_with_resume.py
ResumeUnits == <<<<"N1", "I1">>, <<"N2", "I1">>>>

\* existing_count as if the table never held a matching row.
existing_count_zero(unit) == 0

\* db_scraper_with_resume.py 193-201: SELECT COUNT(*) ... WHERE year, month, warehouse,
\* upazila and product match: the rows of the same item, whatever their union.
existing_count(unit) ==
    LET same == {row \in BagToSet(resume_sink) : row[1][2] = unit[2]} IN
    BagCardinality([row \in same |-> CopiesIn(row, resume_sink)])

NoWrites == [reached |-> 0, committed |-> {}]

InitResume ==
    /\ resume = [pc |-> "item", run |-> 1, left |-> ResumeUnits, n |-> 0, records |-> 0]
    /\ resume_sink = EmptyBag
    /\ scrape_progress = [u \in Range(ResumeUnits) |-> [status |-> "none", records |-> 0]]
    /\ resume_writes = [u \in Range(ResumeUnits) |-> NoWrites]

\* db_scraper_with_resume.py 106-149: update_progress; an error of the status update
\* is logged and the table is left as it was.
update_progress(unit, status, records) ==
    {scrape_progress, [scrape_progress EXCEPT ![unit] = [status |-> status, records |-> records]]}

\* db_scraper_with_resume.py 162-182: in_progress is recorded, then the leaf fetch
\* returns records.
ResumeFetchData ==
    /\ resume.pc = "item" /\ resume.left # <<>>
    /\ scrape_progress' \in update_progress(Head(resume.left), "in_progress", 0)
    /\ \E n \in 1..MaxRecs : resume' = [resume EXCEPT !.pc = "write", !.n = n]
    /\ UNCHANGED <<resume_sink, resume_writes>>
    /\ UNCHANGED notResume

\* db_scraper_with_resume.py 162-180, 282-288: no data: failed, "No data found".
\* Both status updates may fail, so the unit may also stay as it was or in_progress.
ResumeFetchNoData ==
    /\ resume.pc = "item" /\ resume.left # <<>>
    /\ scrape_progress' \in
          update_progress(Head(resume.left), "failed", 0)
          \cup {[scrape_progress EXCEPT ![Head(resume.left)] =
                     [status |-> "in_progress", records |-> 0]]}
    /\ resume' = [resume EXCEPT !.left = Tail(@)]
    /\ UNCHANGED <<resume_sink, resume_writes>>
    /\ UNCHANGED notResume

\* db_scraper_with_resume.py 190, 290-296: connect, the count query or commit raises:
\* nothing is committed and the unit is recorded as failed.
ResumeWriteRaises ==
    /\ resume.pc = "write"
    /\ scrape_progress' \in update_progress(Head(resume.left), "failed", 0)
    /\ resume_writes' = [resume_writes EXCEPT ![Head(resume.left)].reached = @ + 1]
    /\ resume' = [resume EXCEPT !.pc = "item", !.n = 0, !.left = Tail(@)]
    /\ UNCHANGED resume_sink
    /\ UNCHANGED notResume

\* db_scraper_with_resume.py 193-209: matching rows exist: nothing is inserted.
ResumeDedupSkip ==
    /\ resume.pc = "write"
    /\ existing_count(Head(resume.left)) > 0
    /\ resume_writes' = [resume_writes EXCEPT ![Head(resume.left)].reached = @ + 1]
    /\ resume' = [resume EXCEPT !.pc = "mark",
                                !.records = existing_count(Head(resume.left))]
    /\ UNCHANGED <<resume_sink, scrape_progress>>
    /\ UNCHANGED notResume

\* db_scraper_with_resume.py 211-276: no matching row: each record is inserted (an
\* insert error is passed over) and the batch is committed.
ResumeInsert ==
    /\ resume.pc = "write"
    /\ existing_count(Head(resume.left)) = 0
    /\ \E idx \in SUBSET (1..resume.n) :
          /\ resume_sink' = resume_sink (+) SetToBag(Rows(Head(resume.left), idx))
          /\ resume_writes' = [resume_writes EXCEPT
                                  ![Head(resume.left)].reached = @ + 1,
                                  ![Head(resume.left)].committed = @ \cup idx]
          /\ resume' = [resume EXCEPT !.pc = "mark", !.records = Cardinality(idx)]
    /\ UNCHANGED scrape_progress
    /\ UNCHANGED notResume

\* db_scraper_with_resume.py 207-209, 278-281: completed with the count.
ResumeMarkCompleted ==
    /\ resume.pc = "mark"
    /\ scrape_progress' \in update_progress(Head(resume.left), "completed", resume.records)
    /\ resume' = [resume EXCEPT !.pc = "item", !.n = 0, !.records = 0, !.left = Tail(@)]
    /\ UNCHANGED <<resume_sink, resume_writes>>
    /\ UNCHANGED notResume

\* The process exits or is killed at any step and is run again; this variant visits
\* every unit again, whatever the status table holds.
ResumeRerun ==
    /\ resume.run < MaxRuns
    /\ resume.left # ResumeUnits \/ resume.pc # "item"
    /\ resume' = [pc |-> "item", run |-> resume.run + 1, left |-> ResumeUnits, n |-> 0,
                  records |-> 0]
    /\ UNCHANGED <<resume_sink, scrape_progress, resume_writes>>
    /\ UNCHANGED notResume

NextResume ==
    \/ ResumeFetchData \/ ResumeFetchNoData \/ ResumeWriteRaises \/ ResumeDedupSkip
    \/ ResumeInsert \/ ResumeMarkCompleted \/ ResumeRerun

\* C4: with the existence check in place, writing the records of a unit again (a
\* re-run that does not know of the first write) never stores a row a second time:
\* every row in the sink is there once, and every record a write committed is there.
C4_SinkDedupIdempotent ==
    /\ \A row \in BagToSet(resume_sink) : CopiesIn(row, resume_sink) = 1
    /\ \A u \in Range(ResumeUnits) :
          \A i \in resume_writes[u].committed : CopiesIn(<<u, i>>, resume_sink) = 1

\* C4 witness: the write of a unit was reached twice, the first one committed every
\* record, and the unit has been recorded.
C4_Witness ==
    \E u \in Range(ResumeUnits) :
        /\ resume_writes[u].reached = 2
        /\ resume_writes[u].committed = 1..MaxRecs
        /\ scrape_progress[u].status = "completed"
        /\ resume.run = 2 /\ resume.pc = "item"

\* C31: a unit is recorded as completed with a record count only when rows of that
\* same unit (same union and item) are in the sink: the existence check passes over
\* the records of a unit only for rows of that unit, and the records of a second
\* union of the same upazila and product are inserted.
C31_DedupOnlyTrueDuplicates ==
    \A u \in Range(ResumeUnits) :
        (scrape_progress[u].status = "completed" /\ scrape_progress[u].records > 0)
        => \E row \in BagToSet(resume_sink) : row[1] = u

\* C34: the record count a unit's write hands to the status store and to the totals
\* of its union, upazila and warehouse is the number of rows that write inserted
\* into the sink; rows that were there before are not counted.
C34_CountsMatchSink ==
    [][(resume.pc = "write" /\ resume'.pc = "mark")
       => resume'.records = BagCardinality(resume_sink') - BagCardinality(resume_sink)]_vars

\* C36: when the processing of an item unit returns, the status store holds the unit
\* with a terminal status, completed or failed; the unit is not left in_progress or
\* without a status, and the traversal goes on with the next unit.
C36_StatusProtocol ==
    [][(resume.left # <<>> /\ resume'.run = resume.run /\ resume'.left = Tail(resume.left))
       => /\ scrape_progress'[Head(resume.left)].status \in {"completed", "failed"}
          /\ resume'.pc = "item"]_vars

\* =========================================================== fixed-scraper.py
\* BangladeshScraper.process_warehouse with max_workers = 1 for warehouse "8", whose
\* upazilas come from warehouse_upazila_mapping (fixed-scraper.py 69-73).
FixedUpazilas == <<"T097", "T429">>

\* What get_unions can return (fixed-scraper.py 289-336): a JSON list is returned as
\* it is.  "?" stands for an element without the key UnionCode.
FixedUnionLists == {<<>>, <<"N1">>, <<"N1", "N2">>, <<"?", "N1">>}

\* What get_item_tabs can return (fixed-scraper.py 338-403).
FixedItemLists == {<<"I1">>, <<"I1", "I2">>}

InitFixed ==
    /\ fixed = [pc |-> "warehouse", upazilas |-> <<>>, unions |-> <<>>, items |-> <<>>]
    /\ fixed_delivered = {}
    /\ fixed_processed = {}
    /\ fixed_results = [errors |-> {}, files |-> {}]
    /\ fixed_errors = {}

\* fixed-scraper.py 625-642: get_upazilas.
FixedWarehouseStart ==
    /\ fixed.pc = "warehouse"
    /\ fixed' = [fixed EXCEPT !.pc = "upazila", !.upazilas = FixedUpazilas]
    /\ UNCHANGED <<fixed_delivered, fixed_processed, fixed_results, fixed_errors>>
    /\ UNCHANGED notFixed

\* fixed-scraper.py 670-676, 595-612: process_upazila calls get_unions.
FixedUpazilaStart ==
    /\ fixed.pc = "upazila" /\ fixed.upazilas # <<>>
    /\ \E unions_found \in FixedUnionLists :
          /\ fixed' = [fixed EXCEPT !.pc = "union", !.unions = unions_found]
          /\ fixed_delivered' = fixed_delivered \cup
                {<<Head(fixed.upazilas), u>> : u \in Range(unions_found) \ {"?"}}
    /\ UNCHANGED <<fixed_processed, fixed_results, fixed_errors>>
    /\ UNCHANGED notFixed

\* fixed-scraper.py 615-620, 515-536: process_union reads the union and gets its
\* item tabs.
FixedUnionStart ==
    /\ fixed.pc = "union" /\ fixed.unions # <<>> /\ Head(fixed.unions) # "?"
    /\ \E item_tabs \in FixedItemLists :
          fixed' = [fixed EXCEPT !.pc = "item", !.items = item_tabs]
    /\ UNCHANGED <<fixed_delivered, fixed_processed, fixed_results, fixed_errors>>
    /\ UNCHANGED notFixed

\* fixed-scraper.py 522, 615-621, 679-683: union["UnionCode"] raises KeyError.  The
\* loop of process_upazila has no try: the exception ends process_upazila and is
\* caught by the upazila loop of process_warehouse, which appends it to
\* self.stats["errors"] and goes on with the next upazila.
FixedUnionRaises ==
    /\ fixed.pc = "union" /\ fixed.unions # <<>> /\ Head(fixed.unions) = "?"
    /\ fixed_errors' = fixed_errors \cup {<<"upazila", Head(fixed.upazilas)>>}
    /\ fixed' = [fixed EXCEPT !.pc = "upazila", !.unions = <<>>, !.upazilas = Tail(@)]
    /\ UNCHANGED <<fixed_delivered, fixed_processed, fixed_results>>
    /\ UNCHANGED notFixed

\* fixed-scraper.py 543-577: records were found and the data file is written.
FixedItemSaved ==
    /\ fixed.pc = "item" /\ fixed.items # <<>>
    /\ fixed_results' = [fixed_results EXCEPT !.files = @ \cup
            {<<Head(fixed.upazilas), Head(fixed.unions), Head(fixed.items)>>}]
    /\ fixed' = [fixed EXCEPT !.items = Tail(@)]
    /\ UNCHANGED <<fixed_delivered, fixed_processed, fixed_errors>>
    /\ UNCHANGED notFixed

\* fixed-scraper.py 545-551, 578-579: no records.
FixedItemNoData ==
    /\ fixed.pc = "item" /\ fixed.items # <<>>
    /\ fixed' = [fixed EXCEPT !.items = Tail(@)]
    /\ UNCHANGED <<fixed_delivered, fixed_processed, fixed_results, fixed_errors>>
    /\ UNCHANGED notFixed

\* fixed-scraper.py 581-588: an exception while fetching, parsing or saving the item is
\* recorded in the union's error list and in self.stats["errors"].
FixedItemRaises ==
    /\ fixed.pc = "item" /\ fixed.items # <<>>
    /\ fixed_results' = [fixed_results EXCEPT !.errors = @ \cup
            {<<Head(fixed.upazilas), Head(fixed.unions), Head(fixed.items)>>}]
    /\ fixed_errors' = fixed_errors \cup
            {<<"item", Head(fixed.upazilas), Head(fixed.unions), Head(fixed.items)>>}
    /\ fixed' = [fixed EXCEPT !.items = Tail(@)]
    /\ UNCHANGED <<fixed_delivered, fixed_processed>>
    /\ UNCHANGED notFixed

\* fixed-scraper.py 593, 620-621: process_union returns its results.
FixedUnionDone ==
    /\ fixed.pc = "item" /\ fixed.items = <<>>
    /\ fixed_processed' = fixed_processed \cup {<<Head(fixed.upazilas), Head(fixed.unions)>>}
    /\ fixed' = [fixed EXCEPT !.pc = "union", !.unions = Tail(@)]
    /\ UNCHANGED <<fixed_delivered, fixed_results, fixed_errors>>
    /\ UNCHANGED notFixed

\* fixed-scraper.py 623, 676-678: process_upazila returns.
FixedUpazilaDone ==
    /\ fixed.pc = "union" /\ fixed.unions = <<>>
    /\ fixed' = [fixed EXCEPT !.pc = "upazila", !.upazilas = Tail(@)]
    /\ UNCHANGED <<fixed_delivered, fixed_processed, fixed_results, fixed_errors>>
    /\ UNCHANGED notFixed

\* fixed-scraper.py 685: process_warehouse returns.
FixedWarehouseDone ==
    /\ fixed.pc = "upazila" /\ fixed.upazilas = <<>>
    /\ fixed' = [fixed EXCEPT !.pc = "done"]
    /\ UNCHANGED <<fixed_delivered, fixed_processed, fixed_results, fixed_errors>>
    /\ UNCHANGED notFixed

NextFixed ==
    \/ FixedWarehouseStart \/ FixedUpazilaStart \/ FixedUnionStart \/ FixedUnionRaises
    \/ FixedItemSaved \/ FixedItemNoData \/ FixedItemRaises
    \/ FixedUnionDone \/ FixedUpazilaDone \/ FixedWarehouseDone

\* C7 (as stated): an exception at one union is caught at that union's iteration, so
\* when the warehouse is finished every well-formed union that discovery delivered
\* has been processed.
C7_FailureIsolation ==
    fixed.pc = "done" => fixed_delivered \subseteq fixed_processed

\* ======================================= fixed-scraper.py: the retry loops
\* get_upazilas, get_unions, get_item_tabs and get_item_data of BangladeshScraper
\* each hold the same loop: for retry in range(self.max_retries): try: post ...
RequestKinds == {"upazilas", "unions", "item_tabs", "item_data"}

\* What one attempt can meet.  "conn": the connection cannot be opened; "read": the
\* connection breaks while the answer is read (session.post raises in both cases).
\* A number is an HTTP status other than 200.  The others are answers with status
\* 200: "data" holds entries; "empty_list" is the JSON text [] (for item data:
\* {"aaData": []}); "no_elements" is HTML without option or button elements;
\* "no_key" is a JSON object without the expected key.
RaisingOutcomes == {"conn", "read"}
StatusOutcomes == {"500", "404", "403"}
BodyOutcomes == {"data", "empty_list", "no_elements", "no_key"}

\* fixed-scraper.py 197-254, 289-328, 367-382, 444-466: what the body of a 200 answer
\* leads to: a return of the parsed data, a return of the fallback list, a return of
\* an empty result, or the next turn of the loop.
OnBody(kind, body) ==
    CASE kind = "upazilas" ->
            IF body = "data" THEN "data"
            ELSE IF body = "empty_list" THEN "fallback" ELSE "next"
      [] kind = "unions" ->
            IF body = "data" THEN "data"
            ELSE IF body = "empty_list" THEN "empty" ELSE "next"
      [] kind = "item_tabs" ->
            IF body = "data" THEN "data" ELSE "next"
      [] kind = "item_data" ->
            IF body = "data" THEN "data"
            ELSE IF body = "empty_list" THEN "empty" ELSE "next"

\* fixed-scraper.py 111-117: the session is mounted with HTTPAdapter(max_retries =
\* retries): a connection that cannot be opened is tried again retries times inside
\* one session.post.
ConnectionsOpened(outcome, retries) == IF outcome = "conn" THEN 1 + retries ELSE 1

\* fixed-scraper.py 260-262, 334-336, 388-403, 472-473: the value returned when the loop
\* ends: the test upazila, the test union, the default item list, None.
ExhaustedResult(kind) == IF kind = "item_data" THEN "None" ELSE "fallback"

\* except Exception as if it let the error of session.post pass.
AttemptExceptPasses(kind) == FALSE

\* fixed-scraper.py 256-258, 330-332, 384-386, 468-470: except Exception around the
\* body of the loop catches the error of session.post.
AttemptExcept(kind) == TRUE

InitRetry ==
    rq = [pc |-> "idle", kind |-> "upazilas", max_retries |-> 1, retry |-> 0,
          outcomes |-> <<>>, waits |-> <<>>, wire |-> 0, result |-> "", caller |-> ""]

\* A get_* method is called.
RetryCall ==
    /\ rq.pc = "idle"
    /\ \E kind \in RequestKinds, n \in 1..MaxRetries :
          rq' = [rq EXCEPT !.pc = "loop", !.kind = kind, !.max_retries = n]
    /\ UNCHANGED notRetry

\* fixed-scraper.py 186, 256-258 (278, 330-332; 356, 384-386; 433, 468-470): session.post
\* raises; the error is logged, the loop sleeps 2 seconds and takes its next turn.
AttemptRaises ==
    /\ rq.pc = "loop" /\ rq.retry < rq.max_retries
    /\ \E o \in RaisingOutcomes :
          rq' = IF AttemptExcept(rq.kind)
                THEN [rq EXCEPT !.outcomes = Append(@, o), !.waits = Append(@, 2),
                                !.wire = @ + ConnectionsOpened(o, rq.max_retries),
                                !.retry = @ + 1]
                ELSE [rq EXCEPT !.outcomes = Append(@, o),
                                !.wire = @ + ConnectionsOpened(o, rq.max_retries),
                                !.pc = "returned", !.result = "raised"]
    /\ UNCHANGED notRetry

\* fixed-scraper.py 187-190 (279-282, 357-360, 434-437): a status other than 200: the
\* loop sleeps 1 second and takes its next turn.
AttemptStatus ==
    /\ rq.pc = "loop" /\ rq.retry < rq.max_retries
    /\ \E o \in StatusOutcomes :
          rq' = [rq EXCEPT !.outcomes = Append(@, o), !.waits = Append(@, 1),
                           !.wire = @ + 1, !.retry = @ + 1]
    /\ UNCHANGED notRetry

\* fixed-scraper.py 197-251 (289-325, 367-379, 444-459): status 200 and the method
\* returns.
AttemptReturns ==
    /\ rq.pc = "loop" /\ rq.retry < rq.max_retries
    /\ \E o \in BodyOutcomes :
          /\ OnBody(rq.kind, o) # "next"
          /\ rq' = [rq EXCEPT !.outcomes = Append(@, o), !.wire = @ + 1,
                              !.pc = "returned", !.result = OnBody(rq.kind, o)]
    /\ UNCHANGED notRetry

\* fixed-scraper.py 253-254 (327-328, 381-382, 465-466): status 200 and nothing found in
\* the body: the loop takes its next turn at once.
AttemptNothingFound ==
    /\ rq.pc = "loop" /\ rq.retry < rq.max_retries
    /\ \E o \in BodyOutcomes :
          /\ OnBody(rq.kind, o) = "next"
          /\ rq' = [rq EXCEPT !.outcomes = Append(@, o), !.waits = Append(@, 0),
                              !.wire = @ + 1, !.retry = @ + 1]
    /\ UNCHANGED notRetry

\* fixed-scraper.py 260-262 (334-336, 388-403, 472-473): the loop has ended.
RetryExhausted ==
    /\ rq.pc = "loop" /\ rq.retry = rq.max_retries
    /\ rq' = [rq EXCEPT !.pc = "returned", !.result = ExhaustedResult(rq.kind)]
    /\ UNCHANGED notRetry

\* fixed-scraper.py 545-588, 598-606, 636-637: the caller.  process_union parses item
\* data when it is not None and has nothing to save otherwise; an exception is caught
\* at the item and recorded; the callers of the discovery methods take the list.
RetryCaller ==
    /\ rq.pc = "returned"
    /\ rq' = [rq EXCEPT !.pc = "done",
                 !.caller = IF rq.result = "raised" THEN "error"
                            ELSE IF rq.kind # "item_data" THEN "list"
                            ELSE IF rq.result = "data" THEN "saved"
                            ELSE "no_data"]
    /\ UNCHANGED notRetry

NextRetry ==
    \/ RetryCall \/ AttemptRaises \/ AttemptStatus \/ AttemptReturns
    \/ AttemptNothingFound \/ RetryExhausted \/ RetryCaller

\* Every attempt of the request failed: the loop took max_retries turns and each met
\* an error of session.post or a status other than 200.
EveryAttemptFailed ==
    /\ Len(rq.outcomes) = rq.max_retries
    /\ \A i \in 1..Len(rq.outcomes) : rq.outcomes[i] \in RaisingOutcomes \cup StatusOutcomes

\* C11: when every attempt of a request has failed, the method returns its failure
\* value (None for item data, the fallback list for a discovery request) and raises
\* nothing; the caller takes a missing item-data answer as no data and goes on.
C11_RetryExhaustionNotFatal ==
    (rq.pc = "done" /\ EveryAttemptFailed) =>
        /\ rq.result = ExhaustedResult(rq.kind)
        /\ rq.caller = IF rq.kind = "item_data" THEN "no_data" ELSE "list"

\* C11 witness: an item-data request whose attempts all failed, one of them with an
\* error raised by session.post, has been handled by its caller.
C11_Witness ==
    /\ rq.pc = "done" /\ EveryAttemptFailed /\ rq.kind = "item_data"
    /\ rq.max_retries >= 2
    /\ \E i \in 1..Len(rq.outcomes) : rq.outcomes[i] \in RaisingOutcomes

\* The failures the specification names transient: connection failure, timeout,
\* status 500, 502, 503, 504, and 404.
TransientOutcomes == {"conn", "read", "500", "404"}

\* C12 (as stated): a request makes at most max_retries attempts, and an attempt is
\* followed by another one only when it met a transient failure (so none follows a
\* successful answer).
C12_BoundedRetries ==
    /\ Len(rq.outcomes) <= rq.max_retries
    /\ \A i \in 1..(Len(rq.outcomes) - 1) : rq.outcomes[i] \in TransientOutcomes

RECURSIVE Pow2(_)
Pow2(n) == IF n = 0 THEN 1 ELSE 2 * Pow2(n - 1)

\* C13 (as stated): the wait after the failed attempt n (counted from 0) is between
\* 2^n and 2^n + n - 1 seconds (1 second for n = 0), and the waits never decrease.
C13_BackoffFormula ==
    /\ \A i \in 1..Len(rq.waits) :
          LET n == i - 1 IN
          /\ rq.waits[i] >= Pow2(n)
          /\ rq.waits[i] <= Pow2(n) + (IF n = 0 THEN 0 ELSE n - 1)
    /\ \A i \in 1..(Len(rq.waits) - 1) : rq.waits[i] <= rq.waits[i + 1]

\* A well-formed answer without data: the JSON text [] (item data: no rows), HTML
\* without option or button elements for a discovery request, a JSON object without
\* rows for item data.
WellFormedEmpty(kind, outcome) ==
    \/ outcome = "empty_list"
    \/ outcome = "no_elements" /\ kind # "item_data"
    \/ outcome = "no_key" /\ kind = "item_data"

\* C14 (as stated): no attempt follows a well-formed answer without data.
C14_EmptyNotRetried ==
    \A i \in 1..(Len(rq.outcomes) - 1) : ~WellFormedEmpty(rq.kind, rq.outcomes[i])

\* =================== final_db_scraper.py: resume resolution of fetch_all_data_to_db
\* A year or month is the string the code holds, written as its sequence of digits:
\* "2024" is <<2, 0, 2, 4>>, "02" is <<0, 2>>.  A period is <<year, month>>.
Y2023 == <<2, 0, 2, 3>>
Y2024 == <<2, 0, 2, 4>>
M01 == <<0, 1>>
M02 == <<0, 2>>
M11 == <<1, 1>>
M12 == <<1, 2>>

\* generate_date_ranges() for --start 2023-11 --end 2024-02.
ResolveDateRanges == <<<<Y2023, M11>>, <<Y2023, M12>>, <<Y2024, M01>>, <<Y2024, M02>>>>

\* --resume values in the format YYYY-MM, split at "-" (line 673).
ResumeArgs == {<<y, mo>> : y \in {Y2023, Y2024}, mo \in {M01, M02, M11, M12}}

\* self.warehouses before the filter.
ResolveWarehouses ==
    <<[whrec_id |-> "WH-001", wh_name |-> "Dhaka CWH"],
      [whrec_id |-> "WH-002", wh_name |-> "Khulna RWH"]>>

\* --warehouse values: none, an id, part of an id, part of a name.
ResolveWarehouseArgs == {"", "WH-001", "002", "khulna"}

\* The resume fields a loaded ledger can hold: None (<<>>), or the period and the
\* warehouse id of the last status update (final_db_scraper.py 244-247).
LedgerPoints ==
    {<<>>} \cup {<<d[1], d[2], wh.whrec_id>> :
                    d \in Range(ResolveDateRanges), wh \in Range(ResolveWarehouses)}

\* Python's < on two strings: the first differing character decides, a proper
\* prefix is smaller.
RECURSIVE StrLess(_, _)
StrLess(a, b) ==
    IF b = <<>> THEN FALSE
    ELSE IF a = <<>> THEN TRUE
    ELSE IF Head(a) # Head(b) THEN Head(a) < Head(b)
    ELSE StrLess(Tail(a), Tail(b))

\* final_db_scraper.py 674, 683:
\* [d for d in date_ranges if d[0] > year or (d[0] == year and d[1] >= month)].
FilterDateRanges(dates, year, month) ==
    SelectSeq(dates, LAMBDA d : StrLess(year, d[1]) \/ (d[1] = year /\ ~StrLess(d[2], month)))

\* The resume period as if the ledger's resume point were looked at first.
ResumePeriodLedgerFirst(resume_from, point) ==
    IF point # <<>> THEN <<point[1], point[2]>> ELSE resume_from

\* final_db_scraper.py 672-683: the period the date ranges are cut at: the argument
\* when given, else the ledger's resume point, else none (<<>>).
ResumePeriod(resume_from, point) ==
    IF resume_from # <<>> THEN resume_from
    ELSE IF point # <<>> THEN <<point[1], point[2]>>
    ELSE <<>>

\* final_db_scraper.py 672, 678-688: the warehouse filter: the ledger's last warehouse
\* only when no resume argument and no warehouse argument was given.
ResumeWarehouse(resume_from, specific_warehouse, point) ==
    IF resume_from = <<>> /\ point # <<>> /\ specific_warehouse = ""
    THEN point[3] ELSE specific_warehouse

\* The position of an element in a sequence without repetitions.
PositionIn(seq, e) == CHOOSE i \in DOMAIN seq : seq[i] = e

\* The <<period, warehouse id>> units a sequential run has reached when its last
\* status update was for the unit `point`: process_month_to_db takes the periods in
\* order and, inside a period, the warehouses in order (final_db_scraper.py 645-659,
\* 738-744).
UnitsReached(point) ==
    IF point = <<>> THEN {}
    ELSE LET pd == PositionIn(ResolveDateRanges, <<point[1], point[2]>>)
             pw == PositionIn([i \in DOMAIN ResolveWarehouses |->
                                  ResolveWarehouses[i].whrec_id], point[3])
         IN  {<<ResolveDateRanges[i], ResolveWarehouses[j].whrec_id>> :
                 i \in 1..pd, j \in DOMAIN ResolveWarehouses} \
             {<<ResolveDateRanges[pd], ResolveWarehouses[j].whrec_id>> :
                 j \in (pw + 1)..Len(ResolveWarehouses)}

InitResolve ==
    rs = [pc |-> "init", resume_from |-> <<>>, specific_warehouse |-> "", point |-> <<>>,
          completed |-> {}, date_ranges |-> <<>>, filter |-> "", warehouses |-> <<>>]

\* final_db_scraper.py 834-842, 161-187: the scraper is constructed, the ledger is
\* loaded, fetch_all_data_to_db is called with the arguments of the command line.
\* The ledger of an interrupted sequential run holds as completed some of the units
\* that run had reached (a unit without records is failed, lines 623-626).
ResolveCall ==
    /\ rs.pc = "init"
    /\ \E resume_from \in {<<>>} \cup ResumeArgs,
          specific_warehouse \in ResolveWarehouseArgs,
          point \in LedgerPoints :
          \E completed \in SUBSET UnitsReached(point) :
             rs' = [rs EXCEPT !.pc = "dates", !.resume_from = resume_from,
                              !.specific_warehouse = specific_warehouse,
                              !.point = point, !.completed = completed,
                              !.warehouses = ResolveWarehouses]
    /\ UNCHANGED notResolve

\* final_db_scraper.py 668-688.
ResolveDates ==
    /\ rs.pc = "dates"
    /\ LET period == ResumePeriod(rs.resume_from, rs.point) IN
          rs' = [rs EXCEPT
                   !.pc = "warehouses",
                   !.date_ranges = IF period = <<>> THEN ResolveDateRanges
                                   ELSE FilterDateRanges(ResolveDateRanges, period[1], period[2]),
                   !.filter = ResumeWarehouse(rs.resume_from, rs.specific_warehouse, rs.point)]
    /\ UNCHANGED notResolve

\* final_db_scraper.py 690-718.
ResolveFilter ==
    /\ rs.pc = "warehouses"
    /\ LET filtered == FilterWarehouses(rs.warehouses, rs.filter) IN
          rs' = IF rs.filter = "" THEN [rs EXCEPT !.pc = "resolved"]
                ELSE IF filtered # <<>> THEN [rs EXCEPT !.pc = "resolved", !.warehouses = filtered]
                ELSE [rs EXCEPT !.pc = "not_found"]
    /\ UNCHANGED notResolve

NextResolve == ResolveCall \/ ResolveDates \/ ResolveFilter

\* The number of a period: 12 * year + month, read from the digits.
RECURSIVE DigitsValue(_)
DigitsValue(digits) ==
    IF digits = <<>> THEN 0
    ELSE 10 * DigitsValue(SubSeq(digits, 1, Len(digits) - 1)) + digits[Len(digits)]

PeriodNumber(year, month) == 12 * DigitsValue(year) + DigitsValue(month)

\* C15: with a resume argument the periods traversed are exactly the configured ones
\* that are not earlier than it, whatever the ledger holds; with a warehouse argument
\* the filter is that argument and the warehouses are the ones it selects.
C15_ExplicitResumeWins ==
    rs.pc = "resolved" =>
        /\ rs.resume_from # <<>> =>
              rs.date_ranges =
                 SelectSeq(ResolveDateRanges, LAMBDA d :
                    PeriodNumber(d[1], d[2]) >= PeriodNumber(rs.resume_from[1], rs.resume_from[2]))
        /\ rs.specific_warehouse # "" =>
              /\ rs.filter = rs.specific_warehouse
              /\ \A i \in 1..Len(rs.warehouses) :
                    \/ rs.warehouses[i].whrec_id = rs.specific_warehouse
                    \/ SubstringOf(rs.specific_warehouse, rs.warehouses[i].whrec_id)
                    \/ LowerSubstringOf(rs.specific_warehouse, rs.warehouses[i].wh_name)

\* C15 witness: a resume argument and a warehouse argument were given while the ledger
\* holds a later period and another warehouse.
C15_Witness ==
    /\ rs.pc = "resolved"
    /\ rs.resume_from = <<Y2023, M12>> /\ rs.specific_warehouse = "WH-001"
    /\ rs.point = <<Y2024, M02, "WH-002">>
    /\ Len(rs.date_ranges) = 3

\* C29: a run that takes its resume point from the ledger (no resume period, no
\* warehouse argument) has in its periods and warehouses every unit of the configured
\* range that the ledger does not hold as completed.
C29_AutoResumeLosesNoWork ==
    (/\ rs.pc \in {"resolved", "not_found"}
     /\ rs.resume_from = <<>> /\ rs.specific_warehouse = "" /\ rs.point # <<>>)
    => \A d \in Range(ResolveDateRanges), wh \in Range(ResolveWarehouses) :
          <<d, wh.whrec_id>> \notin rs.completed =>
              /\ rs.pc = "resolved"
              /\ d \in Range(rs.date_ranges)
              /\ wh \in Range(rs.warehouses)

\* ============ final_db_scraper.py: fetch_all_data_to_db, the concurrent branch
\* With max_workers > 1 every period of date_ranges is submitted to one
\* ThreadPoolExecutor (724-727); a worker thread runs process_month_to_db for its
\* period, all levels below in sequence.  A unit is <<period, item>>.
PoolPeriods == <<1, 2, 3>>

\* The units of a period as if their keys did not carry the period.
TaskUnitsNoPeriod(period) == <<<<0, "I1">>, <<0, "I2">>>>

\* final_db_scraper.py 201-207, 225-226: the keys of the units of a period start with
\* its year and month.
TaskUnits(period) == <<<<period, "I1">>, <<period, "I2">>>>

IdleWorker == [period |-> 0, left |-> <<>>, step |-> "idle", status |-> "", tmp |-> 0]

\* The units a worker is processing: checked as not completed, not yet recorded.
Processing(w) ==
    IF workers[w].step \in {"fetch", "read", "write"} THEN {Head(workers[w].left)} ELSE {}

InitPool ==
    /\ pool = [pc |-> "init", queue |-> <<>>, submitted |-> {}]
    /\ workers = [w \in 1..MaxWorkers |-> IdleWorker]
    /\ pool_progress = [completed |-> {}, failed |-> {}, items_processed |-> 0]
    /\ pool_ghost = [checked |-> {}, applied |-> 0, doneAtStart |-> {}]

\* final_db_scraper.py 161-187, 724-727: the ledger is loaded (some units of an
\* earlier run are completed) and every period is submitted to the executor.
PoolSubmit ==
    /\ pool.pc = "init"
    /\ \E done \in SUBSET {<<1, "I1">>, <<2, "I2">>} :
          /\ pool_progress' = [pool_progress EXCEPT !.completed = done]
          /\ pool_ghost' = [pool_ghost EXCEPT !.doneAtStart = done]
    /\ pool' = [pc |-> "running", queue |-> PoolPeriods, submitted |-> Range(PoolPeriods)]
    /\ UNCHANGED workers
    /\ UNCHANGED notPool

\* concurrent.futures: an idle worker thread takes the next submitted task
\* (final_db_scraper.py 726-727, 633-646).
PoolTake ==
    /\ pool.pc = "running" /\ pool.queue # <<>>
    /\ \E w \in 1..MaxWorkers :
          /\ workers[w].step = "idle"
          /\ workers' = [workers EXCEPT ![w] =
                [IdleWorker EXCEPT !.period = Head(pool.queue),
                                   !.left = TaskUnits(Head(pool.queue)),
                                   !.step = "check"]]
    /\ pool' = [pool EXCEPT !.queue = Tail(@)]
    /\ UNCHANGED <<pool_progress, pool_ghost>>
    /\ UNCHANGED notPool

\* final_db_scraper.py 339-343: the worker asks the ledger before the unit's fetch; a
\* completed unit is passed over.
PoolCheck ==
    /\ \E w \in 1..MaxWorkers :
          /\ workers[w].step = "check" /\ workers[w].left # <<>>
          /\ LET key == Head(workers[w].left) IN
                /\ workers' = [workers EXCEPT ![w] =
                      IF key \in pool_progress.completed
                      THEN [@ EXCEPT !.left = Tail(@)]
                      ELSE [@ EXCEPT !.step = "fetch"]]
                /\ pool_ghost' = [pool_ghost EXCEPT !.checked = @ \cup {key}]
    /\ UNCHANGED <<pool, pool_progress>>
    /\ UNCHANGED notPool

\* final_db_scraper.py 345-435: the leaf fetch and the write; the unit ends completed
\* or failed.
PoolFetch ==
    /\ \E w \in 1..MaxWorkers, status \in {"completed", "failed"} :
          /\ workers[w].step = "fetch"
          /\ workers' = [workers EXCEPT ![w] = [@ EXCEPT !.step = "read", !.status = status]]
    /\ UNCHANGED <<pool, pool_progress, pool_ghost>>
    /\ UNCHANGED notPool

\* final_db_scraper.py 228-241: update_completion_status moves the key between the
\* sets and evaluates stats['items_processed'] for the += of line 241.  No lock is
\* held.
PoolUpdateRead ==
    /\ \E w \in 1..MaxWorkers :
          /\ workers[w].step = "read"
          /\ LET key == Head(workers[w].left) IN
                pool_progress' = [pool_progress EXCEPT
                    !.completed = IF workers[w].status = "completed" THEN @ \cup {key}
                                  ELSE @ \ {key},
                    !.failed = IF workers[w].status = "completed" THEN @ \ {key}
                               ELSE @ \cup {key}]
          /\ workers' = [workers EXCEPT ![w] =
                [@ EXCEPT !.step = "write", !.tmp = pool_progress.items_processed]]
    /\ UNCHANGED <<pool, pool_ghost>>
    /\ UNCHANGED notPool

\* final_db_scraper.py 241: the sum is stored; the unit is done.
PoolUpdateWrite ==
    /\ \E w \in 1..MaxWorkers :
          /\ workers[w].step = "write"
          /\ pool_progress' = [pool_progress EXCEPT !.items_processed = workers[w].tmp + 1]
          /\ workers' = [workers EXCEPT ![w] =
                [@ EXCEPT !.step = "check", !.left = Tail(@), !.status = "", !.tmp = 0]]
    /\ pool_ghost' = [pool_ghost EXCEPT !.applied = @ + 1]
    /\ UNCHANGED pool
    /\ UNCHANGED notPool

\* final_db_scraper.py 662-663: process_month_to_db returns; the thread is free.
PoolTaskDone ==
    /\ \E w \in 1..MaxWorkers :
          /\ workers[w].step = "check" /\ workers[w].left = <<>>
          /\ workers' = [workers EXCEPT ![w] = IdleWorker]
    /\ UNCHANGED <<pool, pool_progress, pool_ghost>>
    /\ UNCHANGED notPool

\* final_db_scraper.py 726-736: the with block ends when every task has returned.
PoolJoin ==
    /\ pool.pc = "running" /\ pool.queue = <<>>
    /\ \A w \in 1..MaxWorkers : workers[w].step = "idle"
    /\ pool' = [pool EXCEPT !.pc = "joined"]
    /\ UNCHANGED <<workers, pool_progress, pool_ghost>>
    /\ UNCHANGED notPool

NextPool ==
    \/ PoolSubmit \/ PoolTake \/ PoolCheck \/ PoolFetch \/ PoolUpdateRead
    \/ PoolUpdateWrite \/ PoolTaskDone \/ PoolJoin

\* No unit is being processed by two workers at the same time.
NoDoubleStart ==
    \A w1, w2 \in 1..MaxWorkers : w1 # w2 => Processing(w1) \cap Processing(w2) = {}

C18_SerializedUpdates ==
    pool.pc = "joined" => pool_progress.items_processed = pool_ghost.applied

\* C35: no unit of a period is being processed while a unit of an earlier period of
\* the run is still to be finished: not taken by a worker yet, or left in the task
\* of a worker.
C35_ChronologicalTraversal ==
    \A w \in 1..MaxWorkers :
        Processing(w) # {}
        => /\ \A period \in Range(pool.queue) : period >= workers[w].period
           /\ \A v \in 1..MaxWorkers :
                 (workers[v].period # 0 /\ workers[v].left # <<>>)
                 => workers[v].period >= workers[w].period

\* ================= fixed-scraper.py: the thread pools of BangladeshScraper
\* process_month submits every warehouse to an executor of min(max_workers,
\* len(warehouses)) threads (698-708); process_warehouse, run by such a thread,
\* submits every upazila to an executor of its own of min(max_workers, len(upazilas))
\* threads when it has more than one upazila (644-655), and processes a single
\* upazila itself (668-683).  process_upazila posts its requests one after another.
NestedWarehouses == <<"W1", "W2", "W3">>

\* get_upazilas of a warehouse.
NestedUpazilas(wh) == IF wh = "W3" THEN <<"U1">> ELSE <<"U1", "U2">>

\* Requests process_upazila posts for one upazila (get_unions, then the requests of
\* process_union).
RequestsPerUpazila == 2

IdleThread == [node |-> "", step |-> "idle", left |-> <<>>, requests |-> 0]

InitNested ==
    /\ wh_pool = [pc |-> "init", queue |-> <<>>]
    /\ wh_threads = [t \in 1..MaxWorkers |-> IdleThread]
    /\ upz_threads = [t \in 1..MaxWorkers |-> [u \in 1..MaxWorkers |-> IdleThread]]

\* fixed-scraper.py 698-708.
NestedSubmit ==
    /\ wh_pool.pc = "init"
    /\ wh_pool' = [pc |-> "running", queue |-> NestedWarehouses]
    /\ UNCHANGED <<wh_threads, upz_threads>>
    /\ UNCHANGED notNested

\* fixed-scraper.py 707, 625-636, 186: a thread takes a warehouse and posts the request
\* of get_upazilas.
NestedWarehouseTake ==
    /\ wh_pool.pc = "running" /\ wh_pool.queue # <<>>
    /\ \E t \in 1..MaxWorkers :
          /\ wh_threads[t].step = "idle"
          /\ wh_threads' = [wh_threads EXCEPT ![t] =
                [IdleThread EXCEPT !.node = Head(wh_pool.queue), !.step = "request"]]
    /\ wh_pool' = [wh_pool EXCEPT !.queue = Tail(@)]
    /\ UNCHANGED upz_threads
    /\ UNCHANGED notNested

\* fixed-scraper.py 636-655, 668-672: the upazilas are known; more than one are
\* submitted to a new executor, a single one is processed by this thread.
NestedUpazilasFound ==
    /\ \E t \in 1..MaxWorkers :
          /\ wh_threads[t].step = "request" /\ wh_threads[t].left = <<>>
          /\ wh_threads[t].requests = 0
          /\ LET found == NestedUpazilas(wh_threads[t].node) IN
                wh_threads' = [wh_threads EXCEPT ![t] =
                   IF MaxWorkers > 1 /\ Len(found) > 1
                   THEN [@ EXCEPT !.step = "executor", !.left = found]
                   ELSE [@ EXCEPT !.step = "request", !.left = found,
                                  !.requests = RequestsPerUpazila]]
    /\ UNCHANGED <<wh_pool, upz_threads>>
    /\ UNCHANGED notNested

\* fixed-scraper.py 668-683, 595-623: the sequential branch: a request of the single
\* upazila is answered; after the last one process_warehouse returns.
NestedSequentialAnswer ==
    /\ \E t \in 1..MaxWorkers :
          /\ wh_threads[t].step = "request" /\ wh_threads[t].requests > 0
          /\ wh_threads' = [wh_threads EXCEPT ![t] =
                IF wh_threads[t].requests = 1 THEN IdleThread
                ELSE [@ EXCEPT !.requests = @ - 1]]
    /\ UNCHANGED <<wh_pool, upz_threads>>
    /\ UNCHANGED notNested

\* fixed-scraper.py 646-655, 595-606: a thread of the warehouse's executor takes an
\* upazila and posts its first request.
NestedUpazilaTake ==
    /\ \E t \in 1..MaxWorkers, u \in 1..MaxWorkers :
          /\ wh_threads[t].step = "executor" /\ wh_threads[t].left # <<>>
          /\ upz_threads[t][u].step = "idle"
          /\ upz_threads' = [upz_threads EXCEPT ![t][u] =
                [IdleThread EXCEPT !.node = Head(wh_threads[t].left), !.step = "request",
                                   !.requests = RequestsPerUpazila]]
          /\ wh_threads' = [wh_threads EXCEPT ![t].left = Tail(@)]
    /\ UNCHANGED wh_pool
    /\ UNCHANGED notNested

\* fixed-scraper.py 595-623: a request of the upazila is answered; the next one is
\* posted, or process_upazila returns.
NestedUpazilaAnswer ==
    /\ \E t \in 1..MaxWorkers, u \in 1..MaxWorkers :
          /\ upz_threads[t][u].step = "request"
          /\ upz_threads' = [upz_threads EXCEPT ![t][u] =
                IF upz_threads[t][u].requests = 1 THEN IdleThread
                ELSE [@ EXCEPT !.requests = @ - 1]]
    /\ UNCHANGED <<wh_pool, wh_threads>>
    /\ UNCHANGED notNested

\* fixed-scraper.py 657-667, 685: every future of the warehouse's executor has its
\* result; process_warehouse returns.
NestedWarehouseDone ==
    /\ \E t \in 1..MaxWorkers :
          /\ wh_threads[t].step = "executor" /\ wh_threads[t].left = <<>>
          /\ \A u \in 1..MaxWorkers : upz_threads[t][u].step = "idle"
          /\ wh_threads' = [wh_threads EXCEPT ![t] = IdleThread]
    /\ UNCHANGED <<wh_pool, upz_threads>>
    /\ UNCHANGED notNested

\* fixed-scraper.py 710-720, 738: every warehouse has its result.
NestedJoin ==
    /\ wh_pool.pc = "running" /\ wh_pool.queue = <<>>
    /\ \A t \in 1..MaxWorkers : wh_threads[t].step = "idle"
    /\ wh_pool' = [wh_pool EXCEPT !.pc = "joined"]
    /\ UNCHANGED <<wh_threads, upz_threads>>
    /\ UNCHANGED notNested

NextNested ==
    \/ NestedSubmit \/ NestedWarehouseTake \/ NestedUpazilasFound \/ NestedSequentialAnswer
    \/ NestedUpazilaTake \/ NestedUpazilaAnswer \/ NestedWarehouseDone \/ NestedJoin

\* The requests that are posted and not yet answered.
InFlight ==
    Cardinality({t \in 1..MaxWorkers : wh_threads[t].step = "request"})
    + Cardinality({tu \in (1..MaxWorkers) \X (1..MaxWorkers) :
                      upz_threads[tu[1]][tu[2]].step = "request"})

\* C19 (as stated): at every moment at most max_workers requests are in flight.
C19_PoolBound == InFlight <= MaxWorkers

\* ===== process_union_data (data_processor.py) and process_union_data_to_db
\* (final_db_scraper.py): the item catalog of one union.  "files" is the variant of
\* data_processor.py, "db" the one of final_db_scraper.py, which also sets the
\* union's status in the ledger.
UnionVariants == {"files", "db"}

\* The test that selects the catalog as if it never found a tab.
UsesDiscoveredNever(item_tabs) == FALSE

\* data_processor.py 33, final_db_scraper.py 464: `if item_tabs and len(item_tabs) > 0`.
UsesDiscovered(item_tabs) == item_tabs # <<>>

\* The discovered tabs that have a code and a name (data_processor.py 37-41,
\* final_db_scraper.py 468-472).
ValidTabs(item_tabs) == SelectSeq(item_tabs, LAMBDA tab : tab # "")

InitUnion ==
    un = [pc |-> "start", variant |-> "files", item_tabs |-> <<>>, raised |-> FALSE,
          catalog |-> "", left |-> <<>>, handed |-> <<>>, total |-> 0, status |-> ""]

\* data_processor.py 29-33, 44-48; final_db_scraper.py 458-464, 478-481: get_item_tab
\* returns a list and the catalog is chosen.
UnionGetItemTab ==
    /\ un.pc = "start"
    /\ \E variant \in UnionVariants, item_tabs \in ItemTabLists :
          un' = [un EXCEPT !.pc = "items", !.variant = variant, !.item_tabs = item_tabs,
                           !.catalog = IF UsesDiscovered(item_tabs) THEN "discovered"
                                       ELSE "static",
                           !.left = IF UsesDiscovered(item_tabs) THEN item_tabs
                                    ELSE StaticItems]
    /\ UNCHANGED notUnion

\* data_processor.py 49-53; final_db_scraper.py 491-500: get_item_tab raises: the db
\* variant sets the union failed; the static catalog is processed.
UnionGetItemTabRaises ==
    /\ un.pc = "start"
    /\ \E variant \in UnionVariants :
          un' = [un EXCEPT !.pc = "items", !.variant = variant, !.raised = TRUE,
                           !.catalog = "static", !.left = StaticItems,
                           !.status = IF variant = "db" THEN "failed" ELSE ""]
    /\ UNCHANGED notUnion

\* data_processor.py 40-41; final_db_scraper.py 471-472: a tab without code or name.
UnionTabPassedOver ==
    /\ un.pc = "items" /\ un.left # <<>> /\ Head(un.left) = ""
    /\ un' = [un EXCEPT !.left = Tail(@)]
    /\ UNCHANGED notUnion

\* data_processor.py 43, 48, 53; final_db_scraper.py 474, 482, 499: the item is handed
\* to _process_single_item(_to_db), which returns the number of files or rows.
UnionItemProcessed ==
    /\ un.pc = "items" /\ un.left # <<>> /\ Head(un.left) # ""
    /\ \E n \in 0..MaxRecs :
          un' = [un EXCEPT !.left = Tail(@), !.handed = Append(@, Head(un.left)),
                           !.total = @ + n]
    /\ UNCHANGED notUnion

\* data_processor.py 55; final_db_scraper.py 485-489, 502: the catalog is done; the db
\* variant sets the union's status unless the except branch did.
UnionReturn ==
    /\ un.pc = "items" /\ un.left = <<>>
    /\ un' = [un EXCEPT !.pc = "done",
                        !.status = IF un.variant = "db" /\ ~un.raised
                                   THEN (IF un.total > 0 THEN "completed" ELSE "failed")
                                   ELSE @]
    /\ UNCHANGED notUnion

NextUnion ==
    \/ UnionGetItemTab \/ UnionGetItemTabRaises \/ UnionTabPassedOver
    \/ UnionItemProcessed \/ UnionReturn

\* C20 as stated: the items processed for a union are exactly the discovered tabs when
\* discovery found any, and exactly the static catalog when it found none.
C20_ExactlyDiscovered ==
    (un.pc = "done" /\ ~un.raised) =>
        un.handed = (IF un.item_tabs # <<>> THEN un.item_tabs ELSE StaticItems)

\* C20: the items processed for a union are the discovered tabs (those with code and
\* name) when discovery found any, and the static catalog when it found none; an
\* empty discovery alone does not make the union failed; the items never come from
\* both catalogs.
C20_CatalogPrecedence ==
    un.pc = "done" =>
        /\ (~un.raised /\ un.item_tabs # <<>>) => un.handed = ValidTabs(un.item_tabs)
        /\ (~un.raised /\ un.item_tabs = <<>>) =>
              /\ un.handed = StaticItems
              /\ un.total > 0 => un.status # "failed"
        /\ un.handed \in {ValidTabs(un.item_tabs), StaticItems}

\* C20 witness: discovery found nothing, the static catalog was processed with
\* records, and the union is completed.
C20_Witness ==
    /\ un.pc = "done" /\ ~un.raised /\ un.item_tabs = <<>>
    /\ un.handed = StaticItems /\ un.variant = "db" /\ un.status = "completed"

\* ===== fixed-scraper.py get_upazilas: where the upazilas of a (period, warehouse)
\* come from.
DiscoverPeriods == {1, 2}

DiscoverWarehouses == {"8", "17", "12"}

\* What the remote service holds for a period and a warehouse.
RemoteUpazilas(period, warehouse_id) ==
    IF period = 1 THEN <<"U1">> ELSE <<"U1", "U2">>

\* fixed-scraper.py 69-80: self.warehouse_upazila_mapping.
warehouse_upazila_mapping ==
    [w \in {"8", "11", "All"} |->
        IF w = "8" THEN <<"T097", "T429">> ELSE <<"T429">>]

\* fixed-scraper.py 168: `if warehouse_id in self.warehouse_upazila_mapping`.
Mapped(warehouse_id) == warehouse_id \in DOMAIN warehouse_upazila_mapping

InitDiscover ==
    /\ disc = [pc |-> "idle", period |-> 0, warehouse_id |-> ""]
    /\ disc_posts = {}
    /\ disc_visits = {}

\* fixed-scraper.py 625-637: process_warehouse calls get_upazilas for a warehouse of
\* the period process_month is at (each pair once in a run).
DiscoverCall ==
    /\ disc.pc = "idle"
    /\ \E period \in DiscoverPeriods, warehouse_id \in DiscoverWarehouses :
          /\ \A v \in disc_visits : <<v.period, v.warehouse_id>> # <<period, warehouse_id>>
          /\ disc' = [pc |-> "called", period |-> period, warehouse_id |-> warehouse_id]
    /\ UNCHANGED <<disc_posts, disc_visits>>
    /\ UNCHANGED notDiscover

\* fixed-scraper.py 168-170: the warehouse is in the mapping: its list is returned
\* and no request is made.
DiscoverFromMapping ==
    /\ disc.pc = "called" /\ Mapped(disc.warehouse_id)
    /\ disc_visits' = disc_visits \cup
          {[period |-> disc.period, warehouse_id |-> disc.warehouse_id,
            from |-> "mapping",
            upazilas |-> warehouse_upazila_mapping[disc.warehouse_id]]}
    /\ disc' = [disc EXCEPT !.pc = "idle"]
    /\ UNCHANGED disc_posts
    /\ UNCHANGED notDiscover

\* fixed-scraper.py 173-186: the request for the period and the warehouse is posted.
DiscoverPost ==
    /\ disc.pc = "called" /\ ~Mapped(disc.warehouse_id)
    /\ disc_posts' = disc_posts \cup {<<disc.period, disc.warehouse_id>>}
    /\ disc' = [disc EXCEPT !.pc = "posted"]
    /\ UNCHANGED disc_visits
    /\ UNCHANGED notDiscover

\* fixed-scraper.py 211-251: the answer holds upazilas.
DiscoverFound ==
    /\ disc.pc = "posted"
    /\ disc_visits' = disc_visits \cup
          {[period |-> disc.period, warehouse_id |-> disc.warehouse_id,
            from |-> "remote",
            upazilas |-> RemoteUpazilas(disc.period, disc.warehouse_id)]}
    /\ disc' = [disc EXCEPT !.pc = "idle"]
    /\ UNCHANGED disc_posts
    /\ UNCHANGED notDiscover

\* fixed-scraper.py 201-207: the answer is the empty JSON array: the "All" entry of
\* the mapping is returned.
DiscoverEmptyArray ==
    /\ disc.pc = "posted"
    /\ disc_visits' = disc_visits \cup
          {[period |-> disc.period, warehouse_id |-> disc.warehouse_id,
            from |-> "mapping_all", upazilas |-> warehouse_upazila_mapping["All"]]}
    /\ disc' = [disc EXCEPT !.pc = "idle"]
    /\ UNCHANGED disc_posts
    /\ UNCHANGED notDiscover

\* fixed-scraper.py 260-262: no attempt of the loop returned: the test upazila.
DiscoverExhausted ==
    /\ disc.pc = "posted"
    /\ disc_visits' = disc_visits \cup
          {[period |-> disc.period, warehouse_id |-> disc.warehouse_id,
            from |-> "test", upazilas |-> <<"T429">>]}
    /\ disc' = [disc EXCEPT !.pc = "idle"]
    /\ UNCHANGED disc_posts
    /\ UNCHANGED notDiscover

NextDiscover ==
    \/ DiscoverCall \/ DiscoverFromMapping \/ DiscoverPost
    \/ DiscoverFound \/ DiscoverEmptyArray \/ DiscoverExhausted

\* C21: for every (period, warehouse) the traversal has obtained upazilas for, a
\* request was posted for that period and that warehouse, and the upazilas are not
\* those of a fixed table.
C21_FreshDiscovery ==
    \A v \in disc_visits :
        /\ <<v.period, v.warehouse_id>> \in disc_posts
        /\ v.from # "mapping"

\* ===== the child-listing operations: data_fetcher.py get_upazilas / get_unions and
\* fixed-scraper.py get_upazilas / get_unions, on one list of regions delivered in
\* one of three shapes.  A region is written by its id; its name goes with it.
MaxRegions == 2

RegionIds == {"T1", "T2", "9"}

Shapes == {"array", "wrapped", "options"}

Listings == {"data_fetcher", "fixed_upazilas", "fixed_unions"}

\* `T\d+` of the pattern at fixed-scraper.py 240.
IsTCode(id) == id \in {"T1", "T2"}

\* `\d+` of the patterns at fixed-scraper.py 300 and 315.
IsDigits(id) == id \in {"9"}

\* json.loads / response.json() of the response text: a list, a dict, or an error
\* for text that is not JSON.
JsonLoads(shape, regions) ==
    CASE shape = "array"   -> [is |-> "list", list |-> regions]
      [] shape = "wrapped" -> [is |-> "dict", list |-> regions]
      [] shape = "options" -> [is |-> "error", list |-> <<>>]

\* data_fetcher.py 23-31, 47-54: a list is returned as it is, of a dict its `data`
\* entry, and an error of response.json() gives the empty list.
FetcherList(shape, regions) ==
    LET result == JsonLoads(shape, regions)
    IN  CASE result.is = "list"  -> result.list
          [] result.is = "dict"  -> result.list
          [] result.is = "error" -> <<>>

\* fixed-scraper.py 197-262 with the same answer to every attempt: a non-empty list
\* is returned, an empty list gives the "All" entry of the mapping; otherwise the
\* option pattern is tried, and when it matches nothing the loop runs out and the
\* test upazila is returned.
FixedUpazilaList(shape, regions) ==
    LET result  == JsonLoads(shape, regions)
        matches == IF shape = "options" THEN SelectSeq(regions, IsTCode) ELSE <<>>
    IN  IF result.is = "list"
        THEN (IF result.list = <<>> THEN warehouse_upazila_mapping["All"]
              ELSE result.list)
        ELSE IF matches # <<>> THEN matches ELSE <<"T429">>

\* fixed-scraper.py 289-336 with the same answer to every attempt: a list is
\* returned as it is; otherwise the pattern for union objects is tried on the text,
\* then the option pattern; when nothing matches the test union is returned.
FixedUnionList(shape, regions) ==
    LET result  == JsonLoads(shape, regions)
        objects == IF shape = "wrapped" THEN SelectSeq(regions, IsDigits) ELSE <<>>
        options == IF shape = "options" THEN SelectSeq(regions, IsDigits) ELSE <<>>
    IN  IF result.is = "list" THEN result.list
        ELSE IF objects # <<>> THEN objects
        ELSE IF options # <<>> THEN options
        ELSE <<"1">>

ListChildren(listing, shape, regions) ==
    CASE listing = "data_fetcher"   -> FetcherList(shape, regions)
      [] listing = "fixed_upazilas" -> FixedUpazilaList(shape, regions)
      [] listing = "fixed_unions"   -> FixedUnionList(shape, regions)

InitShapes ==
    shp = [pc |-> "start", listing |-> "data_fetcher", regions |-> <<>>,
           returned |-> [s \in {} |-> <<>>]]

\* The remote service holds a list of regions for the parent asked about.
ShapesChoose ==
    /\ shp.pc = "start"
    /\ \E listing \in Listings, regions \in SeqsUpTo(RegionIds, MaxRegions) :
          shp' = [shp EXCEPT !.pc = "listing", !.listing = listing, !.regions = regions]
    /\ UNCHANGED notShapes

\* The listing operation is called on the list delivered in one more shape.
ShapesList ==
    /\ shp.pc = "listing"
    /\ \E shape \in Shapes \ DOMAIN shp.returned :
          shp' = [shp EXCEPT !.returned =
                     [s \in DOMAIN shp.returned \cup {shape} |->
                         IF s = shape THEN ListChildren(shp.listing, shape, shp.regions)
                         ELSE shp.returned[s]]]
    /\ UNCHANGED notShapes

NextShapes == ShapesChoose \/ ShapesList

\* C22: the same list of regions delivered as a JSON array, as an object wrapping
\* the array under `data`, or as <option> elements gives the same returned list.
C22_ShapeIndependent ==
    \A s1, s2 \in DOMAIN shp.returned : shp.returned[s1] = shp.returned[s2]

\* ===== the structured-API parse of an aaData payload: get_item_data of
\* data_fetcher.py, parse_item_data of master_scraper.py and of fixed-scraper.py.
ApiParsers == {"data_fetcher", "master_scraper", "fixed_scraper"}

\* master_scraper.py 38-41, fixed-scraper.py 488-491: a row whose first cell is
\* empty is passed over, whatever its second cell holds; a short row is padded
\* (master_scraper.py 51-59, fixed-scraper.py 501-509) and raises nothing.
ParseRowSkipped(row) == row.c0e

\* master_scraper.py 23-63, fixed-scraper.py 475-513: parse_item_data on a dict with
\* aaData.  The local `eligible` (`'<img src=' in row[12]`, 43-46 / 493-496) is never
\* put in the record: the loop over the columns stores under "eligible" the 13th cell
\* with its tags removed (48-59 / 498-509), which is the empty string when the cell
\* holds the marker image and when the cell is missing.  The third field of a record
\* is the truth value of what is stored, as the writers read it
\* (`1 if record.get('eligible') else 0`, final_db_scraper.py 400).
parse_item_data(rows) ==
    KeptFrom("api", rows, {i \in DOMAIN rows : ~ParseRowSkipped(rows[i])}, {})

\* The records the parse of a payload gives back, per implementation; get_item_data
\* gives none when its row loop raised.
ApiParse(parser, rows) ==
    IF parser = "data_fetcher"
    THEN ApiStrategy([kind |-> "aaData", rows |-> rows]).recs
    ELSE parse_item_data(rows)

InitParse ==
    prs = [pc |-> "start", parser |-> "data_fetcher", rows |-> <<>>, recs |-> <<>>]

\* The remote answers with a payload of rows.
ParsePayload ==
    /\ prs.pc = "start"
    /\ \E parser \in ApiParsers, rows \in SeqsUpTo(ApiRow, MaxRows) :
          prs' = [prs EXCEPT !.pc = "payload", !.parser = parser, !.rows = rows]
    /\ UNCHANGED notParse

\* The payload is parsed.
ParseRows ==
    /\ prs.pc = "payload"
    /\ prs' = [prs EXCEPT !.pc = "parsed", !.recs = ApiParse(prs.parser, prs.rows)]
    /\ UNCHANGED notParse

NextParse == ParsePayload \/ ParseRows

\* The indexes of the rows the records were made of, in the order of the records.
RowsOf(recs) == [i \in DOMAIN recs |-> recs[i][2]]

\* The indexes of the rows that are not the total row, in payload order.
NotTotalRows(rows) ==
    RowsOf(KeptFrom("api", rows,
                    {i \in DOMAIN rows : ~(rows[i].c0e /\ rows[i].gt)}, {}))

\* C23: the structured-API parse returns, in order, exactly the rows that are not the
\* total row (empty first cell and "Grand Total" in the second); no other row is
\* dropped, a row with an empty first cell included.
C23_GrandTotalOnly ==
    prs.pc = "parsed" => RowsOf(prs.recs) = NotTotalRows(prs.rows)

\* C39: every record of the structured-API parse has eligible true exactly when the
\* marker image is in the 13th cell of its row, and false when the cell is absent.
C39_EligiblePolicy ==
    prs.pc = "parsed" =>
        \A k \in DOMAIN prs.recs :
            prs.recs[k][3] = (prs.rows[prs.recs[k][2]].tick /\ ~prs.rows[prs.recs[k][2]].short)

\* ===== data_fetcher.py scrape_item_data on one answer of the page.
InitScrape ==
    scr = [pc |-> "start", resp |-> [kind |-> "none", rows |-> <<>>],
           recs |-> <<>>, exc |-> FALSE, esc |-> FALSE]

\* data_fetcher.py 184-198: the page is requested and answers.
ScrapeRequest ==
    /\ scr.pc = "start"
    /\ \E resp \in HtmlResponses : scr' = [scr EXCEPT !.pc = "answered", !.resp = resp]
    /\ UNCHANGED notScrape

\* data_fetcher.py 200-265: the answer is turned into records.
ScrapeRows ==
    /\ scr.pc = "answered"
    /\ LET r == scrape_item_data(scr.resp)
       IN  scr' = [scr EXCEPT !.pc = "scraped", !.recs = r.recs, !.exc = r.exc,
                              !.esc = r.esc]
    /\ UNCHANGED notScrape

NextScrape == ScrapeRequest \/ ScrapeRows

\* C24: of a table body the HTML scrape returns one record for each row that has at
\* least 8 cells and does not contain "Grand Total", in order, skips every other
\* row, and raises nothing.
C24_MalformedRowsSkipped ==
    (scr.pc = "scraped" /\ scr.resp.kind = "table") =>
        LET rows == scr.resp.rows
            good == {i \in DOMAIN rows : ~rows[i].few /\ ~rows[i].gt}
        IN  /\ ~scr.exc /\ ~scr.esc
            /\ Len(scr.recs) = Cardinality(good)
            /\ \A k \in DOMAIN scr.recs : scr.recs[k][2] \in good
            /\ \A k, l \in DOMAIN scr.recs : k < l => scr.recs[k][2] < scr.recs[l][2]

\* C24 witness: a table with a short row, a total row and a data row was scraped into
\* one record.
C24_Witness ==
    /\ scr.pc = "scraped" /\ scr.resp.kind = "table" /\ Len(scr.recs) = 1
    /\ \E i, j \in DOMAIN scr.resp.rows :
          /\ scr.resp.rows[i].few /\ ~scr.resp.rows[i].gt
          /\ scr.resp.rows[j].gt /\ ~scr.resp.rows[j].few

\* ===== fixed-scraper.py generate_date_ranges.
GenYears == {2023, 2024}

GenMonths == 1..12

\* str(n) of a non-negative integer: its decimal digits.
RECURSIVE Str(_)
Str(n) == IF n < 10 THEN <<n>> ELSE Append(Str(n \div 10), n % 10)

\* f"{n:02d}": the digits of n, with a leading 0 when there is only one.
Format02(n) == IF n < 10 THEN <<0, n>> ELSE Str(n)

\* The loop test with the end month left out.
DateLoopContinuesExclusive(current_year, current_month, end_year, end_month) ==
    current_year < end_year \/ (current_year = end_year /\ current_month < end_month)

\* fixed-scraper.py 130: the test of the while loop.
DateLoopContinues(current_year, current_month, end_year, end_month) ==
    current_year < end_year \/ (current_year = end_year /\ current_month <= end_month)

InitDates ==
    gen = [pc |-> "start", start_year |-> 0, start_month |-> 0, end_year |-> 0,
           end_month |-> 0, current_year |-> 0, current_month |-> 0,
           date_ranges |-> <<>>]

\* fixed-scraper.py 17-18, 121-128: start and end are read, the loop variables set.
DatesCall ==
    /\ gen.pc = "start"
    /\ \E sy, ey \in GenYears, sm, em \in GenMonths :
          gen' = [pc |-> "loop", start_year |-> sy, start_month |-> sm, end_year |-> ey,
                  end_month |-> em, current_year |-> sy, current_month |-> sm,
                  date_ranges |-> <<>>]
    /\ UNCHANGED notDates

\* fixed-scraper.py 130-137: one turn of the loop.
DatesAppend ==
    /\ gen.pc = "loop"
    /\ DateLoopContinues(gen.current_year, gen.current_month, gen.end_year, gen.end_month)
    /\ gen' = [gen EXCEPT
                 !.date_ranges = Append(@, <<Str(gen.current_year),
                                            Format02(gen.current_month)>>),
                 !.current_month = IF gen.current_month + 1 > 12 THEN 1
                                   ELSE gen.current_month + 1,
                 !.current_year = IF gen.current_month + 1 > 12 THEN @ + 1 ELSE @]
    /\ UNCHANGED notDates

\* fixed-scraper.py 139-140: the loop is left and the list returned.
DatesReturn ==
    /\ gen.pc = "loop"
    /\ ~DateLoopContinues(gen.current_year, gen.current_month, gen.end_year, gen.end_month)
    /\ gen' = [gen EXCEPT !.pc = "done"]
    /\ UNCHANGED notDates

NextDates == DatesCall \/ DatesAppend \/ DatesReturn

\* The number of months from start to end, both included (0 or less: start is later).
MonthsSpanned == 12 * (gen.end_year - gen.start_year) + gen.end_month - gen.start_month + 1

\* C25: for start not later than end the sequence begins with start, ends with end,
\* every element is followed by the next month (12 by 01 of the next year), months
\* are two digits in 01..12, and there is one element per month; for start later
\* than end it is empty; the loop never appends more than the months spanned.
C25_PeriodGeneration ==
    LET d == gen.date_ranges
    IN  /\ Len(d) <= (IF MonthsSpanned > 0 THEN MonthsSpanned ELSE 0)
        /\ \A i \in DOMAIN d :
              /\ Len(d[i][2]) = 2
              /\ DigitsValue(d[i][2]) \in 1..12
        /\ \A i \in DOMAIN d : i < Len(d) =>
              PeriodNumber(d[i + 1][1], d[i + 1][2]) = PeriodNumber(d[i][1], d[i][2]) + 1
        /\ gen.pc = "done" =>
              IF MonthsSpanned > 0
              THEN /\ Len(d) = MonthsSpanned
                   /\ d[1] = <<Str(gen.start_year), Format02(gen.start_month)>>
                   /\ d[Len(d)] = <<Str(gen.end_year), Format02(gen.end_month)>>
              ELSE d = <<>>

\* C25 witness: a range that rolls over the end of a year was generated.
C25_Witness ==
    /\ gen.pc = "done" /\ gen.start_year < gen.end_year /\ Len(gen.date_ranges) = 4
    /\ gen.date_ranges[2] = <<<<2, 0, 2, 3>>, <<1, 2>>>>
    /\ gen.date_ranges[3] = <<<<2, 0, 2, 4>>, <<0, 1>>>>

\* ===== main of final_db_scraper.py and of db_scraper.py: start-up, the run, the
\* exit status of the process.
Programs == {"final_db_scraper", "db_scraper"}

\* --resume: absent, in the format YYYY-MM, or without a "-".
MainResumeArgs == {"", "2023-01", "2023"}

\* The most leaf fetches the traversal of one run makes.
MaxLeaves == 2

InitMain ==
    mn = [pc |-> "start", program |-> "final_db_scraper", reset_progress |-> FALSE,
          resume |-> "", db_ok |-> TRUE, progress_file |-> FALSE,
          ledger_modified |-> FALSE, sink_modified |-> FALSE, requests |-> 0,
          leaf_failures |-> 0, init |-> "pending", aborted |-> FALSE, status |-> -1]

\* final_db_scraper.py 767-798, db_scraper.py main: the arguments are parsed; the
\* database is reachable or not, the ledger file exists or not.
MainParseArgs ==
    /\ mn.pc = "start"
    /\ \E program \in Programs, reset \in BOOLEAN, resume_arg \in MainResumeArgs,
          db_ok \in BOOLEAN, file \in BOOLEAN :
          /\ program = "db_scraper" => ~reset /\ ~file
          /\ mn' = [mn EXCEPT !.pc = "args", !.program = program,
                              !.reset_progress = reset, !.resume = resume_arg,
                              !.db_ok = db_ok, !.progress_file = file]
    /\ UNCHANGED notMain

\* final_db_scraper.py 824-830: --reset-progress removes the ledger file.
MainResetProgress ==
    /\ mn.pc = "args"
    /\ mn' = [mn EXCEPT !.pc = "construct",
                        !.progress_file = IF mn.reset_progress THEN FALSE ELSE @,
                        !.ledger_modified = mn.reset_progress /\ mn.progress_file]
    /\ UNCHANGED notMain

\* final_db_scraper.py 126-159, db_scraper.py 31-43: the constructor connects to the
\* database; when that raises, the constructor raises and main's except prints it
\* (final_db_scraper.py 842-850, db_scraper.py 472-475).
MainConstruct ==
    /\ mn.pc = "construct"
    /\ mn' = IF mn.db_ok
             THEN [mn EXCEPT !.pc = "head", !.init = "ok"]
             ELSE [mn EXCEPT !.pc = "return", !.init = "failed"]
    /\ UNCHANGED notMain

\* final_db_scraper.py 671-675: `resume_year, resume_month = resume_from.split('-')`
\* raises for a value without "-"; main's except prints it.
MainResumeSplit ==
    /\ mn.pc = "head"
    /\ mn' = IF mn.resume = "2023"
             THEN [mn EXCEPT !.pc = "return", !.aborted = TRUE]
             ELSE [mn EXCEPT !.pc = "traverse"]
    /\ UNCHANGED notMain

\* final_db_scraper.py 720-744: the traversal; every exception of a period is caught
\* (732-736, 741-744); some of its leaf fetches fail.
MainTraverse ==
    /\ mn.pc = "traverse"
    /\ \E leaves \in 1..MaxLeaves, failures \in 0..MaxLeaves :
          /\ failures <= leaves
          /\ mn' = [mn EXCEPT !.pc = "summary", !.requests = leaves,
                              !.leaf_failures = failures,
                              !.sink_modified = failures < leaves,
                              !.ledger_modified = mn.program = "final_db_scraper"]
    /\ UNCHANGED notMain

\* final_db_scraper.py 746-765: the summary file is written and the ledger saved.
MainSummaryWritten ==
    /\ mn.pc = "summary"
    /\ mn' = [mn EXCEPT !.pc = "return"]
    /\ UNCHANGED notMain

\* final_db_scraper.py 747-751: mkdir, open or json.dump raises; fetch_all_data_to_db
\* is left before the final _save_progress and main's except prints the error.
MainSummaryRaises ==
    /\ mn.pc = "summary"
    /\ mn' = [mn EXCEPT !.pc = "return", !.aborted = TRUE]
    /\ UNCHANGED notMain

\* final_db_scraper.py 840-855, db_scraper.py 470-478: main returns after the try
\* statement, whichever branch ran, and the interpreter exits with status 0.
MainReturn ==
    /\ mn.pc = "return"
    /\ mn' = [mn EXCEPT !.pc = "exit", !.status = 0]
    /\ UNCHANGED notMain

NextMain ==
    \/ MainParseArgs \/ MainResetProgress \/ MainConstruct \/ MainResumeSplit
    \/ MainTraverse \/ MainSummaryWritten \/ MainSummaryRaises \/ MainReturn

\* C27: when the sink cannot be opened at start-up no request is issued and neither
\* the sink nor the ledger is modified; once initialization has succeeded no error
\* aborts the run.
C27_FatalInitialization ==
    /\ mn.init = "failed" =>
          mn.requests = 0 /\ ~mn.sink_modified /\ ~mn.ledger_modified
    /\ mn.init = "ok" => ~mn.aborted

\* C28: the exit status is a failure status exactly when initialization failed.
C28_ExitStatus ==
    mn.pc = "exit" => (mn.status # 0 <=> mn.init = "failed")

\* ====================================== final_db_scraper.py: the ledger alone
\* FinalDatabaseScraper.update_completion_status called in any order on a fresh
\* ledger, for an item key and for the key of its union, with either status.
LedgerKeys == {SingleUnit, <<1, "WH-001", "U1", "N1", NoId>>}

\* The number of calls followed.
MaxCalls == 4

LedgerCallsMade == progress.items_processed + progress.unions_processed

InitLedger == ledger_calls = [k \in LedgerKeys |-> [last |-> "none", before |-> "none"]]

\* final_db_scraper.py 217-257: one call; records is 0 or 1.
LedgerCall ==
    /\ pc = "init" /\ LedgerCallsMade < MaxCalls
    /\ \E key \in LedgerKeys, status \in {"completed", "failed"}, records \in 0..1 :
          /\ Mark(key, IF IsItemKey(key) THEN "item" ELSE "union", status, records)
          /\ ledger_calls' = [ledger_calls EXCEPT
                                 ![key] = [last |-> status, before |-> ledger_calls[key].last]]
    /\ UNCHANGED <<pc, run, sink, date_ranges, warehouses, wh_left, upazilas, unions,
                   item_list, acc, item, summary_log, summary_written, doneAtStart, fetched,
                   skipped>>
    /\ UNCHANGED notFinalLedger

NextLedger == LedgerCall

\* C33: after any sequence of update_completion_status calls no key is in both the
\* completed set and the failed set, in memory and in the ledger file, and every key
\* is in the set of the status its most recent call gave and in neither set when it
\* was never the subject of a call.
C33_LedgerSetsDisjoint ==
    /\ progress.completed \cap progress.failed = {}
    /\ disk.completed \cap disk.failed = {}
    /\ \A k \in LedgerKeys :
          /\ (k \in progress.completed) <=> (ledger_calls[k].last = "completed")
          /\ (k \in progress.failed) <=> (ledger_calls[k].last = "failed")

\* C33 witness: the most recent call made a failed key completed and, for the other
\* key, a completed key failed.
C33_Witness ==
    \E k1, k2 \in LedgerKeys :
        /\ ledger_calls[k1] = [last |-> "completed", before |-> "failed"]
        /\ ledger_calls[k2] = [last |-> "failed", before |-> "completed"]

\* ============ data_processor.py / final_db_scraper.py: where summaries are written
\* The traversal of process_month / process_warehouse_month (data_processor.py) and of
\* fetch_all_data_to_db / process_month_to_db / process_warehouse_month_to_db
\* (final_db_scraper.py) over a fixed tree, following only the summaries: which nodes
\* are finished and which summaries are in a file.  A node is <<period>>,
\* <<period, warehouse>> or <<period, warehouse, upazila>>.
FlushPrograms == {"data_processor", "final_db_scraper"}
FlushPeriods == <<1, 2>>
FlushWarehouses == <<"W1", "W2">>
FlushUpazilas == <<"U1", "U2">>

\* The nodes at and beneath a node.
FlushSubtree(node) ==
    LET all == {<<p>> : p \in Range(FlushPeriods)}
               \cup {<<p, w>> : p \in Range(FlushPeriods), w \in Range(FlushWarehouses)}
               \cup {<<p, w, u>> : p \in Range(FlushPeriods), w \in Range(FlushWarehouses),
                                   u \in Range(FlushUpazilas)}
    IN {n \in all : Len(n) >= Len(node) /\ \A i \in 1..Len(node) : n[i] = node[i]}

InitFlush ==
    flush = [pc |-> "init", program |-> "", period |-> 1, wh |-> 1, upz |-> 1,
             finished |-> {}, files |-> {}, errors |-> 0]

FlushStart ==
    /\ flush.pc = "init"
    /\ \E program \in FlushPrograms : flush' = [flush EXCEPT !.pc = "run", !.program = program]
    /\ UNCHANGED notFlush

\* data_processor.py 194-215, final_db_scraper.py 597-617: process_upazila returns its
\* result, which is appended to the warehouse summary in memory, or raises, which is
\* appended to the summary's errors; then the delay and the next upazila.
FlushUpazilaDone ==
    /\ flush.pc = "run" /\ flush.period <= Len(FlushPeriods)
    /\ flush.wh <= Len(FlushWarehouses) /\ flush.upz <= Len(FlushUpazilas)
    /\ \E raised \in BOOLEAN :
          flush' = [flush EXCEPT
              !.finished = @ \cup {<<FlushPeriods[flush.period], FlushWarehouses[flush.wh],
                                     FlushUpazilas[flush.upz]>>},
              !.errors = IF raised THEN @ + 1 ELSE @,
              !.upz = @ + 1]
    /\ UNCHANGED notFlush

\* data_processor.py 217-226: the warehouse summary, which holds the results of its
\* upazilas, is written to <year>_<month>_<wh_id>_log.json.  final_db_scraper.py
\* 622-631: the warehouse summary is logged as one line and returned.
FlushWarehouseDone ==
    /\ flush.pc = "run" /\ flush.period <= Len(FlushPeriods)
    /\ flush.wh <= Len(FlushWarehouses) /\ flush.upz > Len(FlushUpazilas)
    /\ LET node == <<FlushPeriods[flush.period], FlushWarehouses[flush.wh]>> IN
          flush' = [flush EXCEPT
              !.finished = @ \cup {node},
              !.files = IF flush.program = "data_processor"
                        THEN @ \cup FlushSubtree(node) ELSE @,
              !.errors = 0,
              !.wh = @ + 1,
              !.upz = 1]
    /\ UNCHANGED notFlush

\* data_processor.py 263-270: the monthly summary, which holds the summaries of its
\* warehouses, is written to <year>_<month>_summary.json.  final_db_scraper.py
\* 662-663, 731-732, 741-742: the monthly summary is returned and appended to
\* summary_log in memory.
FlushMonthDone ==
    /\ flush.pc = "run" /\ flush.period <= Len(FlushPeriods)
    /\ flush.wh > Len(FlushWarehouses)
    /\ LET node == <<FlushPeriods[flush.period]>> IN
          flush' = [flush EXCEPT
              !.finished = @ \cup {node},
              !.files = IF flush.program = "data_processor"
                        THEN @ \cup FlushSubtree(node) ELSE @,
              !.period = @ + 1,
              !.wh = 1]
    /\ UNCHANGED notFlush

\* final_db_scraper.py 746-751: after the last period summary_log is written to
\* logs/db_fetch_summary.json.
FlushRunDone ==
    /\ flush.pc = "run" /\ flush.period > Len(FlushPeriods)
    /\ flush' = [flush EXCEPT
          !.pc = "ended",
          !.files = IF flush.program = "final_db_scraper" THEN @ \cup flush.finished ELSE @]
    /\ UNCHANGED notFlush

\* The process is killed in the middle of the run: the files stay.
FlushCrash ==
    /\ flush.pc = "run"
    /\ flush' = [flush EXCEPT !.pc = "crashed"]
    /\ UNCHANGED notFlush

NextFlush ==
    \/ FlushStart \/ FlushUpazilaDone \/ FlushWarehouseDone \/ FlushMonthDone
    \/ FlushRunDone \/ FlushCrash

\* C37: the summary of every upazila, warehouse-month and period whose processing
\* has finished is in a file, at every point of the run and after a crash.
C37_SummaryFlushed == flush.finished \subseteq flush.files

\* ========================================= the delays between sibling iterations
\* The time.sleep at the end of each turn of the item, union, upazila and warehouse
\* loops of final_db_scraper.py, data_processor.py and fixed-scraper.py.  A delay is
\* counted in half seconds; random.uniform(a, b) gives any value from a to b, of
\* which the model takes the multiples of half a second, both ends included.  0
\* stands for a turn that ends without a sleep.
DelayPrograms == {"final_db_scraper", "data_processor", "fixed_scraper"}
DelayLevels == {"item", "union", "upazila", "warehouse"}

\* final_db_scraper.py 477, 483, 500 (item), 547 (union), 620 (upazila), 660
\* (warehouse); data_processor.py 35-52 (item: no sleep), 163 (union), 216 (upazila),
\* 259 (warehouse); fixed-scraper.py 591 (item), 614-621 (union: no sleep), 644-683
\* (upazila: no sleep), 698-720 (warehouse: no sleep).
Sleeps(program, level) ==
    CASE program = "final_db_scraper" ->
            (CASE level = "item" -> 1..3 [] level = "union" -> 3..6
               [] level = "upazila" -> 6..10 [] level = "warehouse" -> 10..20)
      [] program = "data_processor" ->
            (CASE level = "item" -> {0} [] level = "union" -> {4}
               [] level = "upazila" -> {10} [] level = "warehouse" -> {20})
      [] program = "fixed_scraper" ->
            (CASE level = "item" -> 1..3 [] level = "union" -> {0}
               [] level = "upazila" -> {0} [] level = "warehouse" -> {0})

NoDelays == [l \in DelayLevels |-> [turns |-> 0, least |-> 0]]

InitDelay ==
    dly = [pc |-> "start", program |-> "final_db_scraper", slept |-> NoDelays, most_item |-> 0]

\* One of the programs is run.
DelayStart ==
    /\ dly.pc = "start"
    /\ \E program \in DelayPrograms : dly' = [dly EXCEPT !.pc = "run", !.program = program]
    /\ UNCHANGED notDelay

\* The turn of a loop ends with the delay d of its level (0: no sleep).  Per level
\* the least delay so far is kept, and for the items the largest one as well.
Slept(level, d) ==
    [dly EXCEPT
        !.slept[level] = [turns |-> IF @.turns = 0 THEN 1 ELSE 2,
                          least |-> IF @.turns = 0 \/ d < @.least THEN d ELSE @.least],
        !.most_item = IF level = "item" /\ d > @ THEN d ELSE @]

ItemTurnDone ==
    /\ dly.pc = "run"
    /\ \E d \in Sleeps(dly.program, "item") : dly' = Slept("item", d)
    /\ UNCHANGED notDelay

UnionTurnDone ==
    /\ dly.pc = "run"
    /\ \E d \in Sleeps(dly.program, "union") : dly' = Slept("union", d)
    /\ UNCHANGED notDelay

UpazilaTurnDone ==
    /\ dly.pc = "run"
    /\ \E d \in Sleeps(dly.program, "upazila") : dly' = Slept("upazila", d)
    /\ UNCHANGED notDelay

WarehouseTurnDone ==
    /\ dly.pc = "run"
    /\ \E d \in Sleeps(dly.program, "warehouse") : dly' = Slept("warehouse", d)
    /\ UNCHANGED notDelay

NextDelay ==
    \/ DelayStart \/ ItemTurnDone \/ UnionTurnDone \/ UpazilaTurnDone \/ WarehouseTurnDone

\* Both levels have ended a turn.
BothSlept(lower, upper) == dly.slept[lower].turns > 0 /\ dly.slept[upper].turns > 0

\* C40: every turn of the item, union, upazila and warehouse loops ends with a
\* delay, and the largest item delay is at most the least union delay, which is at
\* most the least upazila delay, which is at most the least warehouse delay.
C40_EscalatingDelays ==
    /\ \A l \in DelayLevels : dly.slept[l].turns > 0 => dly.slept[l].least > 0
    /\ BothSlept("item", "union") => dly.most_item <= dly.slept["union"].least
    /\ BothSlept("union", "upazila") => dly.slept["union"].least <= dly.slept["upazila"].least
    /\ BothSlept("upazila", "warehouse")
       => dly.slept["upazila"].least <= dly.slept["warehouse"].least

\* ------------------------------------------------------------ specifications
Init == InitFetch /\ InitFinal /\ InitPlain /\ InitResume /\ InitFixed /\ InitRetry /\ InitResolve /\ InitPool /\ InitNested /\ InitUnion /\ InitDiscover /\ InitShapes /\ InitParse /\ InitScrape /\ InitDates /\ InitMain /\ InitLedger /\ InitFlush /\ InitDelay

SpecFetch == Init /\ [][NextFetch]_vars

Spec == Init /\ [][Next]_vars

SpecPlain == Init /\ [][NextPlain]_vars

SpecResume == Init /\ [][NextResume]_vars

SpecFixed == Init /\ [][NextFixed]_vars

SpecRetry == Init /\ [][NextRetry]_vars

SpecResolve == Init /\ [][NextResolve]_vars

SpecPool == Init /\ [][NextPool]_vars

SpecNested == Init /\ [][NextNested]_vars

SpecUnion == Init /\ [][NextUnion]_vars

SpecDiscover == Init /\ [][NextDiscover]_vars

SpecShapes == Init /\ [][NextShapes]_vars

SpecParse == Init /\ [][NextParse]_vars

SpecScrape == Init /\ [][NextScrape]_vars

SpecDates == Init /\ [][NextDates]_vars

SpecMain == Init /\ [][NextMain]_vars

SpecLedger == Init /\ [][NextLedger]_vars

SpecFlush == Init /\ [][NextFlush]_vars

SpecDelay == Init /\ [][NextDelay]_vars

====
